---- MODULE Spec2Model ----
(***************************************************************************)
(* A model of TFS (TerbiumOS/TFS): the FS facade over an OPFS-like handle   *)
(* backend, its permission side store, symlink emulation, the polling       *)
(* watcher, the Path helpers and the Shell composites.                      *)
(*                                                                          *)
(* Strings are sequences of one-character strings, so that split, join and  *)
(* the symlink marker's regular expression are computed, not assumed.       *)
(***************************************************************************)
EXTENDS Integers, Sequences, FiniteSets, TLC

\* ------------------------------------------------------------------ bounds
\* longest path string given to the normalizers
MaxPathLen == 5

\* ----------------------------------------------------------------- strings
\* the characters path strings are built from
PathChars == {"/", ".", "a", "b"}

RECURSIVE StrsUpTo(_, _)
\* all strings over the characters cs of length at most n
StrsUpTo(cs, n) ==
    IF n = 0 THEN {<<>>}
    ELSE LET shorter == StrsUpTo(cs, n - 1)
         IN  shorter \cup {Append(s, c) : s \in shorter, c \in cs}

\* String.prototype.startsWith
StartsWith(s, pre) ==
    /\ Len(s) >= Len(pre)
    /\ SubSeq(s, 1, Len(pre)) = pre

\* String.prototype.endsWith
EndsWith(s, suf) ==
    /\ Len(s) >= Len(suf)
    /\ SubSeq(s, Len(s) - Len(suf) + 1, Len(s)) = suf

RECURSIVE SplitFrom(_, _, _)
\* path.split("/") from position i on, cur being the segment collected so far
SplitFrom(s, i, cur) ==
    IF i > Len(s) THEN <<cur>>
    ELSE IF s[i] = "/" THEN <<cur>> \o SplitFrom(s, i + 1, <<>>)
    ELSE SplitFrom(s, i + 1, Append(cur, s[i]))

\* path.split("/"): every segment, the empty ones included
Split(s) == SplitFrom(s, 1, <<>>)

\* Array.prototype.filter(Boolean) on an array of strings: drops the empty ones
FilterBoolean(segs) == SelectSeq(segs, LAMBDA x : x # <<>>)

RECURSIVE Join(_)
\* Array.prototype.join("/")
Join(segs) ==
    IF segs = <<>> THEN <<>>
    ELSE IF Len(segs) = 1 THEN segs[1]
    ELSE segs[1] \o <<"/">> \o Join(Tail(segs))

\* path.split("/").filter(Boolean)
Parts(s) == FilterBoolean(Split(s))

\* ------------------------------------------------------------ normalization
RECURSIVE StackLoopDropLast(_, _)
\* the stack loop stopping one part early (an off-by-one in the loop bound)
StackLoopDropLast(parts, stack) ==
    IF Len(parts) <= 1 THEN stack
    ELSE LET part == Head(parts)
         IN  IF part = <<".">> \/ part = <<>> THEN StackLoopDropLast(Tail(parts), stack)
             ELSE IF part = <<".", ".">>
                  THEN StackLoopDropLast(Tail(parts),
                           IF Len(stack) > 0 THEN SubSeq(stack, 1, Len(stack) - 1) ELSE stack)
                  ELSE StackLoopDropLast(Tail(parts), Append(stack, part))

RECURSIVE StackLoop(_, _)
\* for (const part of parts): skip "." and "", pop on "..", push otherwise
StackLoop(parts, stack) ==
    IF parts = <<>> THEN stack
    ELSE LET part == Head(parts)
         IN  IF part = <<".">> \/ part = <<>> THEN StackLoop(Tail(parts), stack)
             ELSE IF part = <<".", ".">>
                  THEN StackLoop(Tail(parts),
                           IF Len(stack) > 0 THEN SubSeq(stack, 1, Len(stack) - 1) ELSE stack)
                  ELSE StackLoop(Tail(parts), Append(stack, part))

\* the body shared by FS.normalizePath and Path.normalizePath, base being
\* this.currPath resp. this.sep
NormalizeWith(path, base) ==
    IF path = <<>> THEN base
    ELSE LET abs     == IF StartsWith(path, <<"/">>) THEN path ELSE base \o <<"/">> \o path
             stack   == StackLoop(Parts(abs), <<>>)
             newPath == <<"/">> \o Join(stack)
         IN  IF newPath = <<"/", "/">> THEN <<"/">> ELSE newPath

\* FS.normalizePath(path) with no base given, cur being this.currPath
normalizePath(path, cur) == NormalizeWith(path, cur)

RECURSIVE StripTrailing(_)
\* path.replace(/\/*$/, "")
StripTrailing(s) ==
    IF s # <<>> /\ s[Len(s)] = "/" THEN StripTrailing(SubSeq(s, 1, Len(s) - 1)) ELSE s

\* Path.removeTrailing
removeTrailing(path) ==
    LET p == StripTrailing(path) IN IF p = <<>> THEN <<"/">> ELSE p

\* Path.normalizePath(path) with no separator given, sep being this.sep
PathNormalizePath(path, sep) == NormalizeWith(path, sep)

\* Path.normalize
PathNormalize(path, sep) ==
    LET normalized == PathNormalizePath(path, sep)
    IN  IF normalized = <<"/">> THEN <<"/">> ELSE removeTrailing(normalized)

\* Path.join(a, b): drop the empty arguments, strip trailing slashes from the
\* first and leading and trailing slashes from the others, join with this.sep
RECURSIVE StripLeading(_)
StripLeading(s) ==
    IF s # <<>> /\ s[1] = "/" THEN StripLeading(Tail(s)) ELSE s

PathJoin(a, b) ==
    LET kept == FilterBoolean(<<a, b>>)
        conv == [i \in 1..Len(kept) |->
                    IF i = 1 THEN StripTrailing(kept[i])
                    ELSE StripLeading(StripTrailing(kept[i]))]
    IN  Join(conv)

\* Path.dirname
PathDirname(path) ==
    IF path = <<>> \/ path = <<"/">> THEN <<"/">>
    ELSE LET parts == Parts(path)
         IN  <<"/">> \o Join(IF parts = <<>> THEN <<>> ELSE SubSeq(parts, 1, Len(parts) - 1))

\* Path.basename(path) with no extension given: path.split("/").pop(), "/" when
\* that is empty
PathBasename(path) ==
    LET pieces == Split(path)
        base == pieces[Len(pieces)]
    IN  IF base = <<>> THEN <<"/">> ELSE base

\* the character U+0000
NulChar == "NUL"

\* Path.isNull: ("" + path).indexOf("\u0000") !== -1
PathIsNull(path) == \E i \in 1..Len(path) : path[i] = NulChar

\* ----------------------------------------------------------- symlink marker
SymPrefix == <<"s", "y", "m", "l", "i", "n", "k", ":">>
FileStr == <<"f", "i", "l", "e">>
DirStr == <<"d", "i", "r">>
JunctionStr == <<"j", "u", "n", "c", "t", "i", "o", "n">>
LinkTypes == {FileStr, DirStr, JunctionStr}
\* the characters "." does not match
LineBreaks == {"\n", "\r"}

NoMatch == [ok |-> FALSE, target |-> <<>>, type |-> <<>>]

\* the marker's regular expression without its "$" anchor
ExecSymlinkUnanchored(text) ==
    IF ~StartsWith(text, SymPrefix) THEN NoMatch
    ELSE LET rest == SubSeq(text, Len(SymPrefix) + 1, Len(text))
             fits(n) == /\ \A i \in 1..n : rest[i] \notin LineBreaks
                        /\ \E ty \in LinkTypes :
                              StartsWith(SubSeq(rest, n + 1, Len(rest)), <<":">> \o ty)
             lens == {n \in 1..Len(rest) : fits(n)}
         IN  IF lens = {} THEN NoMatch
             ELSE LET n == CHOOSE m \in lens : \A o \in lens : m <= o
                      after == SubSeq(rest, n + 1, Len(rest))
                  IN  [ok |-> TRUE, target |-> SubSeq(rest, 1, n),
                       type |-> CHOOSE ty \in LinkTypes : StartsWith(after, <<":">> \o ty)]

\* /^symlink:(.+?):(file|dir|junction)$/.exec(text): the lazy group takes the
\* shortest run of non-line-break characters after which ":type" ends the text
ExecSymlink(text) ==
    IF ~StartsWith(text, SymPrefix) THEN NoMatch
    ELSE LET rest == SubSeq(text, Len(SymPrefix) + 1, Len(text))
             fits(n) == /\ \A i \in 1..n : rest[i] \notin LineBreaks
                        /\ \E ty \in LinkTypes :
                              SubSeq(rest, n + 1, Len(rest)) = <<":">> \o ty
             lens == {n \in 1..Len(rest) : fits(n)}
         IN  IF lens = {} THEN NoMatch
             ELSE LET n == CHOOSE m \in lens : \A o \in lens : m <= o
                  IN  [ok |-> TRUE, target |-> SubSeq(rest, 1, n),
                       type |-> SubSeq(rest, n + 2, Len(rest))]

\* `symlink:${target}:${symlinkType}`
SymlinkText(target, type) == SymPrefix \o target \o <<":">> \o type

\* ------------------------------------------------------------------ errors
\* no error: the callback's null
NoErr == "null"

\* genError: the name of the error built from an error name; an error that
\* is already an FS error (its name is a code) falls through to UNKNOWN
genError(name) ==
    CASE name = "NotFoundError" -> "ENOENT"
      [] name = "TypeMismatchError" -> "EISDIR"
      [] name = "NoModificationAllowedError" -> "EPERM"
      [] name = "QuotaExceededError" -> "ENOSPC"
      [] name = "SecurityError" -> "EACCES"
      [] name = "InvalidModificationError" -> "EEXIST"
      [] name = "NotReadableError" -> "EIO"
      [] name = "DirectoryNotEmptyError" -> "ENOTEMPTY"
      [] name = "PathExistsError" -> "EEXIST"
      [] name = "noFD" -> "EBADF"
      [] OTHER -> "UNKNOWN"

\* ----------------------------------------------------------------- backend
\* The handle tree: a function from node paths (sequences of names, the root
\* <<>> left out) to nodes; every node's parent is the root or a directory.
DirNode == [kind |-> "dir", data |-> <<>>, mtime |-> 0]
FileNode(data, mtime) == [kind |-> "file", data |-> data, mtime |-> mtime]

IsDirAt(t, np) == np = <<>> \/ (np \in DOMAIN t /\ t[np].kind = "dir")
IsFileAt(t, np) == np \in DOMAIN t /\ t[np].kind = "file"
Parent(np) == SubSeq(np, 1, Len(np) - 1)
Last(np) == np[Len(np)]
ChildrenOf(t, np) == {c \in DOMAIN t : Len(c) = Len(np) + 1 /\ Parent(c) = np}
\* the node paths at or below np
Subtree(t, np) == {c \in DOMAIN t : Len(c) >= Len(np) /\ SubSeq(c, 1, Len(np)) = np}

\* dirHandle.getDirectoryHandle(part, {create}) along dirs: the error of the
\* first lookup that fails, or NoErr
WalkError(t, dirs, create) ==
    IF \E i \in 1..Len(dirs) : IsFileAt(t, SubSeq(dirs, 1, i)) THEN "TypeMismatchError"
    ELSE IF ~create /\ \E i \in 1..Len(dirs) : SubSeq(dirs, 1, i) \notin DOMAIN t
         THEN "NotFoundError"
    ELSE NoErr

\* the tree after getDirectoryHandle(part, {create: true}) along dirs
MkDirs(t, dirs) ==
    IF WalkError(t, dirs, TRUE) # NoErr THEN t
    ELSE LET new == {SubSeq(dirs, 1, i) : i \in 1..Len(dirs)} \ DOMAIN t
         IN  [c \in DOMAIN t \cup new |-> IF c \in DOMAIN t THEN t[c] ELSE DirNode]

\* dirHandle.getFileHandle(name): the error, or NoErr
FileHandleError(t, np) ==
    IF IsFileAt(t, np) THEN NoErr
    ELSE IF np \in DOMAIN t THEN "TypeMismatchError"
    ELSE "NotFoundError"

\* dirHandle.getDirectoryHandle(name): the error, or NoErr
DirHandleError(t, np) ==
    IF IsDirAt(t, np) THEN NoErr
    ELSE IF np \in DOMAIN t THEN "TypeMismatchError"
    ELSE "NotFoundError"

\* dirHandle.removeEntry(name) without {recursive}: the error, or NoErr
RemoveEntryError(t, np) ==
    IF np \notin DOMAIN t THEN "NotFoundError"
    ELSE IF ChildrenOf(t, np) # {} THEN "InvalidModificationError"
    ELSE NoErr

RemoveEntry(t, np) == [c \in DOMAIN t \ {np} |-> t[c]]

\* ------------------------------------------------------------------- state
VARIABLES
    tree,     \* the backend's handle tree
    store,    \* the content of /.TFS_STORE: [state, map]
    perms,    \* FS.perms: normalized path -> [perms, uid, gid]
    currPath, \* FS.currPath
    cwd,      \* Shell.cwd
    tasks,    \* the pending asynchronous operations, by id
    frames,   \* the closures of the fan-out operations (pending, errorOccurred)
    nid,      \* the next task or frame id
    now,      \* the backend's clock, stamped on lastModified
    calls,    \* the calls the client has made, in order
    res,      \* per call, the invocations of its callback, in order
    watcher,  \* the closure of FS.watch: closed, interval, listeners, prevSnapshot
    events,   \* the invocations of the watcher's listeners, in order
    nIn,      \* normalizer harness: the path string given
    nKind,    \* normalizer harness: "FS" or "Path"
    nOut      \* normalizer harness: the results so far, first call first

fsVars == <<tree, store, perms, currPath, cwd, tasks, frames, nid, now, calls, res,
            watcher, events>>
normVars == <<nIn, nKind, nOut>>
vars == <<tree, store, perms, currPath, cwd, tasks, frames, nid, now, calls, res,
          watcher, events, nIn, nKind, nOut>>

\* the FS and Shell objects and the backend, as one value the handlers transform
Cur ==
    [tree |-> tree, store |-> store, perms |-> perms, currPath |-> currPath,
     cwd |-> cwd, tasks |-> tasks, frames |-> frames, nid |-> nid, now |-> now,
     res |-> res, watcher |-> watcher, events |-> events]

Apply(S) ==
    /\ tree' = S.tree
    /\ store' = S.store
    /\ perms' = S.perms
    /\ currPath' = S.currPath
    /\ cwd' = S.cwd
    /\ tasks' = S.tasks
    /\ frames' = S.frames
    /\ nid' = S.nid
    /\ now' = S.now
    /\ res' = S.res
    /\ watcher' = S.watcher
    /\ events' = S.events

\* --------------------------------------------------------------- values
Null == "null"
Ok(v) == [err |-> NoErr, val |-> v]
Err(e) == [err |-> e, val |-> Null]
\* what a caller hands to writeFile: a string or buffer, or null
Data(s) == [nul |-> FALSE, s |-> s]
NullData == [nul |-> TRUE, s |-> <<>>]
NoCallback == [t |-> "none"]
Top(c) == [t |-> "top", c |-> c]

\* the record every new write or mkdir, and every chmod, chown and setxxr,
\* puts into this.perms
DefaultRecord == [perms |-> {"a"}, uid |-> 0, gid |-> 0]
\* the record the constructor writes for the store itself
BootstrapRecord == [perms |-> {"r"}, uid |-> 0, gid |-> 0]
StorePath == <<"/", ".", "T", "F", "S", "_", "S", "T", "O", "R", "E">>

\* normalizedPath in this.perms && !(perms.includes(x) for some x in letters)
Denied(pm, n, letters) == n \in DOMAIN pm /\ pm[n].perms \cap letters = {}

\* the mode stat and lstat derive from the record of the path
PermMode(pm, n) ==
    IF n \in DOMAIN pm /\ "a" \in pm[n].perms THEN 33216
    ELSE IF n \in DOMAIN pm /\ "w" \in pm[n].perms THEN 32896
    ELSE IF n \in DOMAIN pm /\ "r" \in pm[n].perms THEN 33024
    ELSE 33188

RECURSIVE BitAnd(_, _)
\* a & b on non-negative integers
BitAnd(a, b) ==
    IF a = 0 \/ b = 0 THEN 0
    ELSE 2 * BitAnd(a \div 2, b \div 2) + (IF a % 2 = 1 /\ b % 2 = 1 THEN 1 ELSE 0)

\* chmod's letters for a mode: S_IRUSR|S_IRGRP|S_IROTH, S_IWUSR|S_IWGRP|S_IWOTH,
\* S_IXUSR|S_IXGRP|S_IXOTH, O_APPEND
ModePerms(mode) ==
    (IF BitAnd(mode, 256) # 0 \/ BitAnd(mode, 32) # 0 \/ BitAnd(mode, 4) # 0 THEN {"r"} ELSE {})
    \cup (IF BitAnd(mode, 128) # 0 \/ BitAnd(mode, 16) # 0 \/ BitAnd(mode, 2) # 0 THEN {"w"} ELSE {})
    \cup (IF BitAnd(mode, 64) # 0 \/ BitAnd(mode, 8) # 0 \/ BitAnd(mode, 1) # 0 THEN {"x"} ELSE {})
    \cup (IF BitAnd(mode, 8) # 0 THEN {"a"} ELSE {})

RootStat ==
    [type |-> "DIRECTORY", size |-> 0, mtimeMs |-> 0, isSymbolicLink |-> FALSE,
     isDirectory |-> TRUE, isFile |-> FALSE, uid |-> 0, gid |-> 0, mode |-> 16877]
DirStat(mode) ==
    [type |-> "DIRECTORY", size |-> 0, mtimeMs |-> 0, isSymbolicLink |-> FALSE,
     isDirectory |-> TRUE, isFile |-> FALSE, uid |-> 0, gid |-> 0, mode |-> mode]
\* file.type is a MIME type, never "DIRECTORY"
FileStat(node, mode) ==
    [type |-> "FILE", size |-> Len(node.data), mtimeMs |-> node.mtime,
     isSymbolicLink |-> FALSE, isDirectory |-> FALSE, isFile |-> TRUE,
     uid |-> 0, gid |-> 0, mode |-> mode]
\* what stat hands on for a link whose target's stat gave stats
LinkStat(stats) ==
    [stats EXCEPT !.type = "symlink", !.isSymbolicLink = TRUE,
                  !.isDirectory = (stats.type = "DIRECTORY"),
                  !.isFile = (stats.type # "DIRECTORY"), !.mode = 41471]

\* the bytes writeFile writes for content under the encoding
ToWrite(content, enc) ==
    IF ~content.nul THEN content.s
    ELSE IF enc = "utf8" THEN <<"n", "u", "l", "l">>
    ELSE <<>>

Spawn(S, t) == [S EXCEPT !.tasks = S.tasks @@ (S.nid :> t), !.nid = S.nid + 1]
Finish(S, id) == [S EXCEPT !.tasks = [i \in DOMAIN S.tasks \ {id} |-> S.tasks[i]]]
NewFrame(S, f) == [S EXCEPT !.frames = S.frames @@ (S.nid :> f), !.nid = S.nid + 1]

\* a set of names as a sequence, in the order the directory iterator gives them
RECURSIVE SetToSeq(_)
SetToSeq(set) ==
    IF set = {} THEN <<>>
    ELSE LET x == CHOOSE y \in set : TRUE IN <<x>> \o SetToSeq(set \ {x})

\* ------------------------------------------------------------------ watcher
\* the closure of FS.watch before any watch is started
NoWatcher ==
    [state |-> "none", path |-> <<>>, recursive |-> FALSE, closed |-> FALSE,
     interval |-> FALSE, listeners |-> [rename |-> <<>>, change |-> <<>>],
     prevSnapshot |-> <<>>,
     \* what the client does: which listener calls close(), the ticks so far,
     \* when watcher.on was called
     closer |-> 0, ticks |-> 0, on2 |-> "no",
     \* what has happened: a poll begun with the file there is over, a poll
     \* began while another one was under way
     polled |-> FALSE, overlapped |-> FALSE]

\* what a snapshot keeps of a stat result
SnapshotInfo(stats) == [size |-> stats.size, lastModified |-> stats.mtimeMs, type |-> stats.type]

\* a snapshot is a Map: the pairs <<path, info>> in the order of insertion
SnapshotHas(snap, file) == \E i \in 1..Len(snap) : snap[i][1] = file
SnapshotGet(snap, file) == snap[CHOOSE i \in 1..Len(snap) : snap[i][1] = file][2]
SnapshotSet(snap, file, info) ==
    IF SnapshotHas(snap, file)
    THEN [i \in 1..Len(snap) |-> IF snap[i][1] = file THEN <<file, info>> ELSE snap[i]]
    ELSE Append(snap, <<file, info>>)

\* watcher.close(): closed = true; clearInterval(interval); emitter.removeAllListeners()
CloseWatcher(S) ==
    [S EXCEPT !.watcher.closed = TRUE, !.watcher.interval = FALSE,
              !.watcher.listeners = [rename |-> <<>>, change |-> <<>>]]

RECURSIVE EmitTo(_, _, _, _, _)
\* emit: "for (const cb of this.listeners[event]) cb(event, filename)" over the
\* array cbs the loop started on; the listener watcher.closer calls
\* watcher.close() when it is invoked
EmitTo(S, cbs, i, event, file) ==
    IF i > Len(cbs) THEN S
    ELSE LET S1 == [S EXCEPT !.events = Append(@, [listener |-> cbs[i], event |-> event,
                                                    file |-> file,
                                                    closed |-> S.watcher.closed])]
             S2 == IF cbs[i] = S.watcher.closer THEN CloseWatcher(S1) ELSE S1
         IN  EmitTo(S2, cbs, i + 1, event, file)

Emit(S, event, file) == EmitTo(S, S.watcher.listeners[event], 1, event, file)

RECURSIVE EmitNew(_, _, _, _)
\* "for (const [file, info] of snapshot)": rename for a path prev lacks, change
\* for one whose size or lastModified differs
EmitNew(S, snap, prev, i) ==
    IF i > Len(snap) THEN S
    ELSE LET file == snap[i][1]
             info == snap[i][2]
             S1 == IF ~SnapshotHas(prev, file) THEN Emit(S, "rename", file)
                   ELSE IF \/ info.size # SnapshotGet(prev, file).size
                           \/ info.lastModified # SnapshotGet(prev, file).lastModified
                        THEN Emit(S, "change", file)
                   ELSE S
         IN  EmitNew(S1, snap, prev, i + 1)

\* EmitGone with no event for a path that is gone
EmitGoneSilent(S, snap, prev, i) == S

RECURSIVE EmitGone(_, _, _, _)
\* "for (const file of prevSnapshot.keys())": rename for a path snapshot lacks
EmitGone(S, snap, prev, i) ==
    IF i > Len(prev) THEN S
    ELSE EmitGone(IF ~SnapshotHas(snap, prev[i][1]) THEN Emit(S, "rename", prev[i][1]) ELSE S,
                  snap, prev, i + 1)

\* scan after its walk: the two loops that emit, then "prevSnapshot = snapshot";
\* polled notes that a poll begun when the watched file was there is over
ScanDiff(S, f) ==
    LET snap == S.frames[f].snapshot
        prev == S.watcher.prevSnapshot
        S1 == EmitGone(EmitNew(S, snap, prev, 1), snap, prev, 1)
    IN  [S1 EXCEPT !.watcher.prevSnapshot = snap,
                   !.watcher.polled = @ \/ S.frames[f].late,
                   !.frames[f].done = TRUE]

\* ---------------------------------------------------------------- handlers
\* A handler takes the state S and gives the state after its synchronous part:
\* callbacks it invokes on the spot are run, the asynchronous rest is a task.
\* Shell.pwd
Pwd(S) == S.cwd

RECURSIVE Invoke(_, _, _)
RECURSIVE CallStat(_, _, _)
RECURSIVE CallReadFile(_, _, _)
RECURSIVE CallWriteFile(_, _, _, _, _)
RECURSIVE CallUnlink(_, _, _)
RECURSIVE CallRmdir(_, _, _)
RECURSIVE CallRm(_, _, _, _)
RECURSIVE CallCp(_, _, _, _)
RECURSIVE CallRename(_, _, _, _)
RECURSIVE FanOut(_, _, _)
RECURSIVE ScanStep(_, _)

\* updPerms(this.handle, rec), not awaited by its callers
CallUpdPerms(S, rec) == Spawn(S, [op |-> "updRead", rec |-> rec])

\* this.perms = { ...this.perms, [n]: { perms: ["a"], uid: 0, gid: 0 } }
SetDefault(S, n) ==
    [S EXCEPT !.perms = [q \in DOMAIN S.perms \cup {n} |->
                            IF q = n THEN DefaultRecord ELSE S.perms[q]]]

\* FS.stat
CallStat(S, path, k) ==
    LET n == normalizePath(path, S.currPath)
    IN  IF n = <<"/">> THEN Invoke(S, k, Ok(RootStat))
        ELSE Spawn(S, [op |-> "stat", n |-> n, mode |-> PermMode(S.perms, n), k |-> k])

\* FS.lstat
CallLstat(S, path, k) ==
    LET n == normalizePath(path, S.currPath)
    IN  IF n = <<"/">> THEN Invoke(S, k, Ok(RootStat))
        ELSE Spawn(S, [op |-> "lstat", n |-> n, mode |-> PermMode(S.perms, n), k |-> k])

\* FS.readFile
CallReadFile(S, file, k) ==
    LET n == normalizePath(file, S.currPath)
    IN  IF Denied(S.perms, n, {"r", "a"}) THEN Invoke(S, k, Err(genError("SecurityError")))
        ELSE Spawn(S, [op |-> "readFile", n |-> n, k |-> k])

\* FS.writeFile: the chain that creates the parent directories is built, and so
\* runs, before the permission check returns
CallWriteFile(S, file, content, enc, k) ==
    LET n == normalizePath(file, S.currPath)
        parents == Parent(Parts(n))
    IN  IF Denied(S.perms, n, {"w", "a"})
        THEN Invoke(IF parents = <<>> THEN S
                    ELSE Spawn(S, [op |-> "mkParents", n |-> n]),
                    k, Err(genError("SecurityError")))
        ELSE Spawn(S, [op |-> "writeOpen", n |-> n, data |-> ToWrite(content, enc), k |-> k])

\* FS.writeFile with every getDirectoryHandle(parts[i], {create: true}) of the
\* parent chain as a backend call of its own
CallWriteFileWalk(S, file, content, enc, k) ==
    LET n == normalizePath(file, S.currPath)
        parents == Parent(Parts(n))
    IN  IF Denied(S.perms, n, {"w", "a"}) \/ parents = <<>>
        THEN CallWriteFile(S, file, content, enc, k)
        ELSE Spawn(S, [op |-> "writeWalk", n |-> n, i |-> 1,
                       data |-> ToWrite(content, enc), k |-> k])

\* FS.mkdir; without a callback neither updPerms nor this.perms is touched
CallMkdir(S, dir, hasCb, k) ==
    LET n == normalizePath(dir, S.currPath)
        S1 == Spawn(S, [op |-> "mkdir", n |-> n, k |-> IF hasCb THEN k ELSE NoCallback])
    IN  IF hasCb THEN SetDefault(CallUpdPerms(S1, n :> DefaultRecord), n) ELSE S1

\* FS.readdir
CallReaddir(S, dir, k) ==
    Spawn(S, [op |-> "readdir", n |-> normalizePath(dir, S.currPath), k |-> k])

\* FS.unlink
CallUnlink(S, path, k) ==
    LET n == normalizePath(path, S.currPath)
    IN  IF Denied(S.perms, n, {"w", "a"}) THEN Invoke(S, k, Err(genError("SecurityError")))
        ELSE Spawn(S, [op |-> "unlink", n |-> n, k |-> k])

\* FS.rmdir
CallRmdir(S, path, k) ==
    LET n == normalizePath(path, S.currPath)
    IN  IF Denied(S.perms, n, {"w", "a"}) THEN Invoke(S, k, Err(genError("SecurityError")))
        ELSE Spawn(S, [op |-> "rmdir", n |-> n, k |-> k])

\* FS.exists
CallExists(S, path, k) ==
    CallStat(S, normalizePath(path, S.currPath), [t |-> "exists", k |-> k])

\* FS.symlink
CallSymlink(S, target, path, type, k) ==
    CallWriteFile(S, path, Data(SymlinkText(target, type)), "utf8", [t |-> "symlinkCb", k |-> k])

\* FS.readlink
CallReadlink(S, path, k) ==
    Spawn(S, [op |-> "readlink", n |-> normalizePath(path, S.currPath), k |-> k])

\* FS.copyFile
CallCopyFile(S, oldPath, newPath, k) ==
    LET oldP == normalizePath(oldPath, S.currPath)
        newP == normalizePath(newPath, S.currPath)
    IN  CallReadFile(S, oldP, [t |-> "copyRead", newP |-> newP, k |-> k])

\* FS.cp
CallCp(S, oldPath, newPath, k) ==
    CallStat(S, oldPath, [t |-> "cpStat", old |-> oldPath, new |-> newPath, k |-> k])

\* FS.chmod: the record found is changed in place and sent to the store, then
\* this.perms gets the default record for the path
CallChmod(S, path, mode, k) ==
    LET n == normalizePath(path, S.currPath)
        key == IF n \in DOMAIN S.perms THEN n ELSE path
    IN  IF key \notin DOMAIN S.perms THEN Invoke(S, k, Err(genError("NotFoundError")))
        ELSE LET entry == [S.perms[key] EXCEPT !.perms = ModePerms(mode)]
                 S1 == [S EXCEPT !.perms[key] = entry]
                 S2 == CallUpdPerms(S1, n :> entry)
             IN  Invoke(SetDefault(S2, n), k, Ok(Null))

\* Shell.rm
CallRm(S, path, recursive, k) ==
    LET newPath == PathJoin(S.cwd, path)
    IN  IF recursive
        THEN CallReaddir(S, newPath, [t |-> "rmReaddir", path |-> path, newPath |-> newPath, k |-> k])
        ELSE CallUnlink(S, newPath, [t |-> "rmCb", k |-> k])

\* FS.rename
CallRename(S, oldPath, newPath, k) ==
    LET oldP == normalizePath(oldPath, S.currPath)
        newP == normalizePath(newPath, S.currPath)
    IN  CallStat(S, oldP, [t |-> "renameStat", oldP |-> oldP, newP |-> newP, k |-> k])

\* Shell.ls
CallLs(S, path, k) ==
    CallReaddir(S, PathJoin(S.cwd, path), [t |-> "lsCb", k |-> k])

\* results.join(""): the contents read so far, a slot not filled giving nothing
RECURSIVE JoinResults(_)
JoinResults(results) ==
    IF results = <<>> THEN <<>> ELSE Head(results) \o JoinResults(Tail(results))

\* entries.forEach(entry => start(entry)): the calls made for the entries in
\* turn; ks is the sequence of <<kind, argument 1, argument 2, continuation>>
FanOut(S, ks, i) ==
    IF i > Len(ks) THEN S
    ELSE LET e == ks[i]
             S1 == CASE e[1] = "cp" -> CallCp(S, e[2], e[3], e[4])
                     [] e[1] = "rename" -> CallRename(S, e[2], e[3], e[4])
                     [] e[1] = "read" -> CallReadFile(S, e[2], e[4])
                     [] OTHER -> CallStat(S, e[2], e[4])
         IN  FanOut(S1, ks, i + 1)

\* the type Shell.rm compares stats.type with
RmDirectoryType == "directory"

\* RmChildDone with rmdir issued when at most one child is still to be removed
RmChildDoneEarly(S, f) ==
    LET fr == S.frames[f]
        S1 == [S EXCEPT !.frames[f].pending = fr.pending - 1]
    IN  IF fr.pending - 1 <= 1 THEN CallRmdir(S1, fr.newPath, [t |-> "rmCb", k |-> fr.k])
        ELSE S1

\* one more child of a recursive rm is done: "if (!--pending) this.fs.rmdir(newPath, ...)"
RmChildDone(S, f) ==
    LET fr == S.frames[f]
        S1 == [S EXCEPT !.frames[f].pending = fr.pending - 1]
    IN  IF fr.pending - 1 = 0 THEN CallRmdir(S1, fr.newPath, [t |-> "rmCb", k |-> fr.k])
        ELSE S1

\* CpChildDone with success reported when at most one child is still pending
CpChildDoneEarly(S, f) ==
    LET fr == S.frames[f]
        S1 == [S EXCEPT !.frames[f].pending = fr.pending - 1]
    IN  IF fr.pending - 1 <= 1 THEN Invoke(S1, fr.k, Ok(Null)) ELSE S1

\* one more child of a cp is done: "if (!--pending && callback) callback(null)"
CpChildDone(S, f) ==
    LET fr == S.frames[f]
        S1 == [S EXCEPT !.frames[f].pending = fr.pending - 1]
    IN  IF fr.pending - 1 = 0 THEN Invoke(S1, fr.k, Ok(Null)) ELSE S1

\* the type Shell.find compares stats.type with
FindDirectoryType == "directory"

\* minimatch(entry, options.name) for the patterns used here: "*", which
\* matches every name that does not start with a dot, and a literal name
Minimatch(entry, name) ==
    IF name = <<"*">> THEN entry[1] # "." ELSE entry = name

\* Shell.find: walk(currentPath)
FindWalk(S, f, currentPath) ==
    CallReaddir([S EXCEPT !.frames[f].pendingDirs = @ + 1], currentPath,
                [t |-> "findReaddir", f |-> f, dir |-> currentPath])

\* FindFail with the callback made whether or not the search is finished
FindFailUnguarded(S, f, err) ==
    Invoke([S EXCEPT !.frames[f].finished = TRUE], S.frames[f].k, Err(genError(err)))

\* Shell.find: "if (!finished) { finished = true; callback(genError(err), null); }"
FindFail(S, f, err) ==
    IF S.frames[f].finished THEN S
    ELSE Invoke([S EXCEPT !.frames[f].finished = TRUE], S.frames[f].k, Err(genError(err)))

\* Shell.find: "if (--pendingDirs === 0 && !finished) { finished = true;
\* callback(null, results); }"
FindDirDone(S, f) ==
    LET S1 == [S EXCEPT !.frames[f].pendingDirs = @ - 1]
        fr == S1.frames[f]
    IN  IF fr.pendingDirs = 0 /\ ~fr.finished
        THEN Invoke([S1 EXCEPT !.frames[f].finished = TRUE], fr.k, Ok(fr.results))
        ELSE S1

\* the callback k is invoked with the result r
Invoke(S, k, r) ==
    CASE k.t = "none" -> S
      [] k.t = "top" ->
           [S EXCEPT !.res[k.c] = Append(@, [err |-> r.err, val |-> r.val, post |-> S.tree])]
      \* stat: the callback given to this.stat(target, ...)
      [] k.t = "statLink" ->
           IF r.err # NoErr THEN Invoke(S, k.k, Err(genError(r.err)))
           ELSE Invoke(S, k.k, Ok(LinkStat(r.val)))
      [] k.t = "exists" -> Invoke(S, k.k, Ok(r.err = NoErr))
      [] k.t = "symlinkCb" ->
           IF r.err # NoErr THEN Invoke(S, k.k, Err(genError(r.err)))
           ELSE Invoke(S, k.k, Ok(Null))
      \* copyFile: "if (err) genError(err, oldP); this.writeFile(newP, data, ...)"
      [] k.t = "copyRead" ->
           CallWriteFile(S, k.newP, IF r.err = NoErr THEN Data(r.val) ELSE NullData,
                         "arraybuffer", k.k)
      [] k.t = "cpStat" ->
           IF r.err # NoErr THEN Invoke(S, k.k, Err(genError(r.err)))
           ELSE IF r.val.type = "DIRECTORY"
                THEN CallMkdir(S, k.new, TRUE,
                               [t |-> "cpMkdir", old |-> k.old, new |-> k.new, k |-> k.k])
                ELSE CallCopyFile(S, k.old, k.new, k.k)
      [] k.t = "cpMkdir" ->
           IF r.err # NoErr THEN Invoke(S, k.k, Err(genError(r.err)))
           ELSE CallReaddir(S, k.old,
                            [t |-> "cpReaddir", old |-> k.old, new |-> k.new, k |-> k.k])
      [] k.t = "cpReaddir" ->
           IF r.err # NoErr THEN Invoke(S, k.k, Err(genError(r.err)))
           ELSE IF r.val = {} THEN Invoke(S, k.k, Ok(Null))
           ELSE LET f == S.nid
                    S1 == NewFrame(S, [pending |-> Cardinality(r.val), errorOccurred |-> FALSE,
                                       k |-> k.k, path |-> k.old, newPath |-> k.new])
                    es == SetToSeq(r.val)
                    ks == [i \in 1..Len(es) |->
                             <<"cp", normalizePath(k.old \o <<"/">> \o es[i], S.currPath),
                               normalizePath(k.new \o <<"/">> \o es[i], S.currPath),
                               [t |-> "cpChild", f |-> f]>>]
                IN  FanOut(S1, ks, 1)
      [] k.t = "cpChild" ->
           LET fr == S.frames[k.f]
           IN  IF fr.errorOccurred THEN S
               ELSE IF r.err # NoErr
                    THEN Invoke([S EXCEPT !.frames[k.f].errorOccurred = TRUE],
                                fr.k, Err(genError(r.err)))
               ELSE CpChildDone(S, k.f)
      \* scan: "const stat = await this.promises.stat(normalizedPath).catch(() => null)"
      [] k.t = "scanRoot" ->
           IF r.err # NoErr THEN ScanDiff(S, k.f)
           ELSE LET S1 == [S EXCEPT !.frames[k.f].snapshot =
                                        SnapshotSet(@, S.watcher.path, SnapshotInfo(r.val))]
                IN  IF S.watcher.recursive /\ r.val.type = "DIRECTORY"
                    THEN CallReaddir(S1, S.watcher.path,
                                     [t |-> "scanReaddir", f |-> k.f, dir |-> S.watcher.path])
                    ELSE ScanDiff(S1, k.f)
      \* walk: "const entries = await this.promises.readdir(dir).catch(() => [])"
      [] k.t = "scanReaddir" ->
           LET entries == IF r.err # NoErr THEN <<>> ELSE SetToSeq(r.val)
           IN  ScanStep([S EXCEPT !.frames[k.f].stack =
                                      <<[dir |-> k.dir, entries |-> entries]>> \o @], k.f)
      \* walk: "const stat = await this.promises.stat(fullPath).catch(() => null)"
      [] k.t = "scanStat" ->
           IF r.err # NoErr THEN ScanStep(S, k.f)
           ELSE LET S1 == [S EXCEPT !.frames[k.f].snapshot =
                                        SnapshotSet(@, k.fullPath, SnapshotInfo(r.val))]
                IN  IF S.watcher.recursive /\ r.val.type = "DIRECTORY"
                    THEN CallReaddir(S1, k.fullPath,
                                     [t |-> "scanReaddir", f |-> k.f, dir |-> k.fullPath])
                    ELSE ScanStep(S1, k.f)
      \* Shell.rm: the callbacks of unlink (not recursive) and of rmdir
      [] k.t = "rmCb" ->
           IF r.err # NoErr THEN Invoke(S, k.k, Err(genError(r.err)))
           ELSE Invoke(S, k.k, Ok(Null))
      [] k.t = "rmReaddir" ->
           IF r.err # NoErr THEN Invoke(S, k.k, Err(genError(r.err)))
           ELSE IF r.val = {} THEN CallRmdir(S, k.newPath, [t |-> "rmCb", k |-> k.k])
           ELSE LET f == S.nid
                    S1 == NewFrame(S, [pending |-> Cardinality(r.val), errorOccurred |-> FALSE,
                                       k |-> k.k, path |-> k.path, newPath |-> k.newPath])
                    es == SetToSeq(r.val)
                    ks == [i \in 1..Len(es) |->
                             <<"stat", PathJoin(k.newPath, es[i]), <<>>,
                               [t |-> "rmStat", f |-> f, entry |-> es[i]]>>]
                IN  FanOut(S1, ks, 1)
      [] k.t = "rmStat" ->
           LET fr == S.frames[k.f]
               entryPath == PathJoin(fr.newPath, k.entry)
           IN  IF fr.errorOccurred THEN S
               ELSE IF r.err # NoErr
                    THEN Invoke([S EXCEPT !.frames[k.f].errorOccurred = TRUE],
                                fr.k, Err(genError(r.err)))
               ELSE IF r.val.type = RmDirectoryType
                    THEN CallRm(S, PathJoin(fr.path, k.entry), TRUE, [t |-> "rmChild", f |-> k.f])
               ELSE CallUnlink(S, entryPath, [t |-> "rmUnlink", f |-> k.f])
      [] k.t = "rmChild" ->
           LET fr == S.frames[k.f]
           IN  IF fr.errorOccurred THEN S
               ELSE IF r.err # NoErr
                    THEN Invoke([S EXCEPT !.frames[k.f].errorOccurred = TRUE], fr.k, Err(r.err))
               ELSE RmChildDone(S, k.f)
      [] k.t = "rmUnlink" ->
           LET fr == S.frames[k.f]
           IN  IF fr.errorOccurred THEN S
               ELSE IF r.err # NoErr
                    THEN Invoke([S EXCEPT !.frames[k.f].errorOccurred = TRUE],
                                fr.k, Err(genError(r.err)))
               ELSE RmChildDone(S, k.f)

      \* FS.rename: the callback given to this.stat(oldP, ...)
      [] k.t = "renameStat" ->
           IF r.err # NoErr THEN Invoke(S, k.k, Err(genError(r.err)))
           ELSE IF r.val.type = "DIRECTORY"
                THEN CallMkdir(S, k.newP, TRUE,
                               [t |-> "renameMkdir", oldP |-> k.oldP, newP |-> k.newP, k |-> k.k])
                ELSE CallCopyFile(S, k.oldP, k.newP,
                                  [t |-> "renameCopy", oldP |-> k.oldP, k |-> k.k])
      \* "if (callback) callback(null); this.unlink(oldP);"
      [] k.t = "renameCopy" ->
           IF r.err # NoErr THEN Invoke(S, k.k, Err(genError(r.err)))
           ELSE CallUnlink(Invoke(S, k.k, Ok(Null)), k.oldP, NoCallback)
      [] k.t = "renameMkdir" ->
           IF r.err # NoErr THEN Invoke(S, k.k, Err(genError(r.err)))
           ELSE CallReaddir(S, k.oldP,
                            [t |-> "renameReaddir", oldP |-> k.oldP, newP |-> k.newP, k |-> k.k])
      \* Promise.all(entries.map(... this.promises.rename ...)).then(rm).then(cb).catch(cb)
      [] k.t = "renameReaddir" ->
           IF r.err # NoErr THEN Invoke(S, k.k, Err(genError(r.err)))
           ELSE LET f == S.nid
                    S1 == NewFrame(S, [pending |-> Cardinality(r.val), settled |-> FALSE,
                                       k |-> k.k, oldP |-> k.oldP])
                    es == SetToSeq(r.val)
                    ks == [i \in 1..Len(es) |->
                             <<"rename", k.oldP \o <<"/">> \o es[i], k.newP \o <<"/">> \o es[i],
                               [t |-> "renameChild", f |-> f]>>]
                IN  IF r.val = {}
                    THEN CallRm(S1, k.oldP, TRUE, [t |-> "renameRm", f |-> f])
                    ELSE FanOut(S1, ks, 1)
      \* one promise of the Promise.all settles
      [] k.t = "renameChild" ->
           LET fr == S.frames[k.f]
           IN  IF fr.settled THEN S
               ELSE IF r.err # NoErr
                    THEN Invoke([S EXCEPT !.frames[k.f].settled = TRUE],
                                fr.k, Err(genError(r.err)))
               ELSE IF fr.pending - 1 = 0
                    THEN CallRm([S EXCEPT !.frames[k.f].pending = 0], fr.oldP, TRUE,
                                [t |-> "renameRm", f |-> k.f])
               ELSE [S EXCEPT !.frames[k.f].pending = fr.pending - 1]
      \* the promise of this.shell.promises.rm settles (once)
      [] k.t = "renameRm" ->
           LET fr == S.frames[k.f]
               S1 == [S EXCEPT !.frames[k.f].settled = TRUE]
           IN  IF fr.settled THEN S
               ELSE IF r.err # NoErr THEN Invoke(S1, fr.k, Err(genError(r.err)))
               ELSE Invoke(S1, fr.k, Ok(Null))
      \* Shell.ls: the callback given to this.fs.readdir
      [] k.t = "lsCb" ->
           IF r.err # NoErr THEN Invoke(S, k.k, Err(genError(r.err)))
           ELSE Invoke(S, k.k, Ok(r.val))
      \* Shell.cat: the callback given to this.fs.readFile for fp[idx]
      [] k.t = "catRead" ->
           LET S1 == IF r.err # NoErr THEN Invoke(S, S.frames[k.f].k, Err(genError(r.err)))
                     ELSE [S EXCEPT !.frames[k.f].results[k.idx] = r.val]
               S2 == [S1 EXCEPT !.frames[k.f].completed = @ + 1]
               fr == S2.frames[k.f]
           IN  IF fr.completed = Len(fr.results)
               THEN Invoke(S2, fr.k, Ok(JoinResults(fr.results)))
               ELSE S2

      \* FS.access without a record: "callback(exists ? null : genError("NotFoundError"))"
      [] k.t = "accessExists" ->
           IF r.val THEN Invoke(S, k.k, Ok(Null))
           ELSE Invoke(S, k.k, Err(genError("NotFoundError")))
      \* promises.x: "err => { if (err) reject(err); else resolve(value) }"; a
      \* promise that is settled stays as it is
      [] k.t = "promise" ->
           IF S.res[k.c] # <<>> THEN S
           ELSE [S EXCEPT !.res[k.c] = <<[err |-> r.err, val |-> r.val, post |-> S.tree]>>]
      \* promises.exists and promises.access: "x => resolve(x)", x being the one
      \* argument of the callback
      [] k.t = "promiseResolve" ->
           IF S.res[k.c] # <<>> THEN S
           ELSE [S EXCEPT !.res[k.c] =
                     <<[err |-> NoErr, val |-> IF r.err # NoErr THEN r.err ELSE r.val,
                        post |-> S.tree]>>]

      \* Shell.cd: the callback given to this.fs.exists(newPath, ...); the throw
      \* of the other branch leaves this.cwd as it is
      [] k.t = "cdExists" ->
           IF r.val THEN [S EXCEPT !.cwd = k.newPath] ELSE S
      \* the continuation of "await shell.promises.cd(p)": it calls pwd()
      [] k.t = "thenPwd" -> Invoke(S, k.k, Ok(Pwd(S)))
      \* Shell.find: the callback given to this.fs.readdir(currentPath, ...); the
      \* frame d holds the count "pending" of the directory
      [] k.t = "findReaddir" ->
           IF r.err # NoErr THEN FindFail(S, k.f, r.err)
           ELSE IF r.val = {} THEN FindDirDone(S, k.f)
           ELSE LET d == S.nid
                    S1 == NewFrame(S, [pending |-> Cardinality(r.val)])
                    es == SetToSeq(r.val)
                    ks == [i \in 1..Len(es) |->
                             <<"stat", PathJoin(k.dir, es[i]), <<>>,
                               [t |-> "findStat", f |-> k.f, d |-> d, entry |-> es[i],
                                entryPath |-> PathJoin(k.dir, es[i])]>>]
                IN  FanOut(S1, ks, 1)
      \* Shell.find: the callback given to this.fs.stat(entryPath, ...)
      [] k.t = "findStat" ->
           IF r.err # NoErr THEN FindFail(S, k.f, r.err)
           ELSE LET S1 == IF Minimatch(k.entry, S.frames[k.f].name)
                          THEN [S EXCEPT !.frames[k.f].results = Append(@, k.entryPath)]
                          ELSE S
                    S2 == IF r.val.type = FindDirectoryType
                          THEN FindWalk(S1, k.f, k.entryPath) ELSE S1
                    S3 == [S2 EXCEPT !.frames[k.d].pending = @ - 1]
                IN  IF S3.frames[k.d].pending = 0 THEN FindDirDone(S3, k.f) ELSE S3
      \* appendFile: the callback given to this.readFile(path, "arraybuffer", ...);
      \* the name of an error readFile hands on is its code
      [] k.t = "appendRead" ->
           IF r.err # NoErr /\ r.err # "NotFoundError" THEN Invoke(S, k.k, Err(r.err))
           ELSE IF Denied(S.perms, normalizePath(k.path, S.currPath), {"w", "a"})
                THEN Invoke(S, k.k, Err(genError("SecurityError")))
           ELSE CallWriteFile(S, k.path,
                              Data(IF r.err = NoErr THEN r.val \o k.data ELSE k.data),
                              "arraybuffer", k.k)

\* Shell.cd
CallCd(S, path) ==
    LET newPath == PathJoin(S.cwd, path)
    IN  CallExists(S, newPath, [t |-> "cdExists", newPath |-> newPath])

\* Shell.promises.cd: resolve() follows this.cd(path) in the executor
CallPromisesCd(S, path, k) == Invoke(CallCd(S, path), k, Ok(Null))

\* Shell.find
CallFind(S, path, name, k) ==
    LET S1 == NewFrame(S, [results |-> <<>>, pendingDirs |-> 0, finished |-> FALSE,
                           k |-> k, name |-> name])
    IN  FindWalk(S1, S.nid, PathJoin(S.cwd, path))

\* FS.appendFile, data being a string
CallAppendFile(S, path, data, k) ==
    CallReadFile(S, path, [t |-> "appendRead", path |-> path, data |-> data, k |-> k])

\* FS.normalizePath(path, currPath) as a call of the client: "if (currPath)
\* this.currPath = currPath", an empty or absent base being falsy
CallNormalizePath(S, path, base, k) ==
    LET S1 == IF base # <<>> THEN [S EXCEPT !.currPath = base] ELSE S
    IN  Invoke(S1, k, Ok(normalizePath(path, S1.currPath)))

\* new FS(handle): the fields are set and the initialization is started; k is
\* told when it is over
CallConstructor(S, k) ==
    Spawn([S EXCEPT !.currPath = <<"/">>, !.cwd = <<"/">>, !.perms = <<>>],
          [op |-> "ctorExists", k |-> k])

\* the letters of the record grant what mode asks for: R_OK = 4, W_OK = 2, X_OK = 1
AccessAllowed(rec, mode) ==
    /\ BitAnd(mode, 4) # 0 => rec.perms \cap {"r", "a"} # {}
    /\ BitAnd(mode, 2) # 0 => rec.perms \cap {"w", "a"} # {}
    /\ BitAnd(mode, 1) # 0 => "x" \in rec.perms

\* FS.access
CallAccess(S, path, mode, k) ==
    LET n == normalizePath(path, S.currPath)
    IN  IF n \notin DOMAIN S.perms THEN CallExists(S, n, [t |-> "accessExists", k |-> k])
        ELSE IF AccessAllowed(S.perms[n], mode) THEN Invoke(S, k, Ok(Null))
        ELSE Invoke(S, k, Err(genError("SecurityError")))

\* FS.chown: the entry found gets the uid and the gid, is handed to updPerms,
\* and this.perms keeps the default record for the path
CallChown(S, path, uid, gid, k) ==
    LET n == normalizePath(path, S.currPath)
        key == IF n \in DOMAIN S.perms THEN n ELSE path
    IN  IF key \notin DOMAIN S.perms THEN Invoke(S, k, Err(genError("NotFoundError")))
        ELSE LET entry == [S.perms[key] EXCEPT !.uid = uid, !.gid = gid]
                 S1 == [S EXCEPT !.perms[key] = entry]
                 S2 == CallUpdPerms(S1, n :> entry)
             IN  Invoke(SetDefault(S2, n), k, Ok(Null))

\* FS.setxxr: without a record it returns false and makes no callback; the
\* record that lacks "x" gets it and is handed to updPerms, and this.perms keeps
\* the default record for the path
CallSetxxr(S, path, k) ==
    LET n == normalizePath(path, S.currPath)
    IN  IF n \notin DOMAIN S.perms THEN S
        ELSE LET has == "x" \in S.perms[n].perms
                 entry == [S.perms[n] EXCEPT !.perms = @ \cup {"x"}]
                 S1 == [S EXCEPT !.perms[n] = entry]
                 S2 == SetDefault(CallUpdPerms(S1, n :> entry), n)
             IN  Invoke(IF has THEN S ELSE S2, k, Ok(~has))

\* Shell.cat(paths, callback), paths being the array given (one path given as
\* a string is the array holding it)
CallCat(S, paths, k) ==
    IF paths = <<>> THEN Invoke(S, k, Err(genError("NotFoundError")))
    ELSE LET f == S.nid
             S1 == NewFrame(S, [results |-> [i \in 1..Len(paths) |-> <<>>],
                                completed |-> 0, k |-> k])
             ks == [i \in 1..Len(paths) |->
                      <<"read", PathJoin(S.cwd, paths[i]), <<>>,
                        [t |-> "catRead", f |-> f, idx |-> i]>>]
         IN  FanOut(S1, ks, 1)

\* walk between two awaits: the next entry of the innermost directory is
\* looked up; a directory whose entries are used up is left
ScanStep(S, f) ==
    LET stack == S.frames[f].stack
    IN  IF stack = <<>> THEN ScanDiff(S, f)
        ELSE IF stack[1].entries = <<>>
             THEN ScanStep([S EXCEPT !.frames[f].stack = Tail(stack)], f)
        ELSE LET fullPath == normalizePath(stack[1].dir \o <<"/">> \o stack[1].entries[1],
                                           S.currPath)
                 S1 == [S EXCEPT !.frames[f].stack[1].entries = Tail(@)]
             IN  CallStat(S1, fullPath, [t |-> "scanStat", f |-> f, fullPath |-> fullPath])

\* scan(), up to its first await; late notes whether file was there already
CallScan(S, file) ==
    IF S.watcher.closed THEN S
    ELSE LET f == S.nid
             S1 == NewFrame(S, [snapshot |-> <<>>, stack |-> <<>>, done |-> FALSE,
                                late |-> IsFileAt(S.tree, Parts(file))])
             S2 == [S1 EXCEPT !.watcher.overlapped =
                                  @ \/ \E g \in DOMAIN S.frames : ~S.frames[g].done]
         IN  CallStat(S2, S.watcher.path, [t |-> "scanRoot", f |-> f])

\* FS.watch(path, {recursive}, listener), listener being listener 1
CallWatch(S, path, recursive, closer, file) ==
    CallScan([S EXCEPT !.watcher =
                  [NoWatcher EXCEPT !.state = "open",
                                    !.path = normalizePath(path, S.currPath),
                                    !.recursive = recursive, !.interval = TRUE,
                                    !.listeners = [rename |-> <<1>>, change |-> <<1>>],
                                    !.closer = closer]], file)

\* ------------------------------------------------- asynchronous completions
\* stat and lstat after the parent walk: the file lookup, then the directory
\* lookup on NotFoundError or TypeMismatchError
StatLookup(S, t, follow) ==
    LET np == Parts(t.n)
        tr == S.tree
        walk == WalkError(tr, Parent(np), FALSE)
        link == walk = NoErr /\ IsFileAt(tr, np) /\ follow /\ ExecSymlink(tr[np].data).ok
    IN  IF link
        THEN CallStat(S, ExecSymlink(tr[np].data).target, [t |-> "statLink", k |-> t.k])
        ELSE Invoke(S, t.k,
                    IF walk # NoErr THEN Err(genError(walk))
                    ELSE IF IsFileAt(tr, np) THEN Ok(FileStat(tr[np], t.mode))
                    ELSE IF DirHandleError(tr, np) = NoErr THEN Ok(DirStat(t.mode))
                    ELSE Err(genError(DirHandleError(tr, np))))

DoStat(S, id) == StatLookup(Finish(S, id), S.tasks[id], TRUE)
DoLstat(S, id) == StatLookup(Finish(S, id), S.tasks[id], FALSE)

\* readFile after its permission check
DoReadFile(S, id) ==
    LET t == S.tasks[id]
        S1 == Finish(S, id)
        np == Parts(t.n)
        tr == S.tree
        walk == WalkError(tr, Parent(np), FALSE)
        err == IF walk # NoErr THEN walk ELSE FileHandleError(tr, np)
        link == err = NoErr /\ ExecSymlink(tr[np].data).ok
    IN  IF link /\ ExecSymlink(tr[np].data).type = FileStr
        THEN CallReadFile(S1, ExecSymlink(tr[np].data).target, t.k)
        ELSE Invoke(S1, t.k,
                    IF err # NoErr THEN Err(genError(err))
                    \* genError(new Error("TypeMismatchError")): the name is "Error"
                    ELSE IF link THEN Err(genError("Error"))
                    ELSE Ok(tr[np].data))

\* the parent chain of a writeFile that the permission check refused
DoMkParents(S, id) ==
    LET t == S.tasks[id]
    IN  [Finish(S, id) EXCEPT !.tree = MkDirs(S.tree, Parent(Parts(t.n)))]

\* DoWriteWalk with a create that fails on a directory that is already there
DoWriteWalkExclusive(S, id) ==
    LET t == S.tasks[id]
        dirs == Parent(Parts(t.n))
        pre == SubSeq(dirs, 1, t.i)
        S1 == Finish(S, id)
    IN  IF pre \in DOMAIN S.tree THEN Invoke(S1, t.k, Err(genError("InvalidModificationError")))
        ELSE Spawn([S1 EXCEPT !.tree = MkDirs(S.tree, pre)],
                   [op |-> IF t.i = Len(dirs) THEN "writeOpen" ELSE "writeWalk",
                    n |-> t.n, i |-> t.i + 1, data |-> t.data, k |-> t.k])

\* one step of writeFile's parent chain: getDirectoryHandle(parts[i], {create:
\* true}) on the handle of the directory above, which finds the directory or
\* makes it; after the last one the file is opened
DoWriteWalk(S, id) ==
    LET t == S.tasks[id]
        dirs == Parent(Parts(t.n))
        pre == SubSeq(dirs, 1, t.i)
        S1 == Finish(S, id)
        err == IF ~IsDirAt(S.tree, Parent(pre)) THEN "NotFoundError"
               ELSE IF IsFileAt(S.tree, pre) THEN "TypeMismatchError"
               ELSE NoErr
    IN  IF err # NoErr THEN Invoke(S1, t.k, Err(genError(err)))
        ELSE Spawn([S1 EXCEPT !.tree = MkDirs(S.tree, pre)],
                   [op |-> IF t.i = Len(dirs) THEN "writeOpen" ELSE "writeWalk",
                    n |-> t.n, i |-> t.i + 1, data |-> t.data, k |-> t.k])

\* writeFile up to "await writable.write(toWrite)", then updPerms (not awaited) and
\* the assignment to this.perms; the content shows at close
DoWriteOpen(S, id) ==
    LET t == S.tasks[id]
        S1 == Finish(S, id)
        np == Parts(t.n)
        walk == WalkError(S.tree, Parent(np), TRUE)
        tr1 == MkDirs(S.tree, Parent(np))
    IN  IF t.n = StorePath
        THEN \* the store's own entry: created empty when absent
             LET S2 == [S1 EXCEPT !.store = IF S.store.state = "absent"
                                            THEN [state |-> "empty", map |-> <<>>] ELSE @]
                 S3 == SetDefault(CallUpdPerms(S2, t.n :> DefaultRecord), t.n)
             IN  Spawn(S3, [op |-> "writeClose", n |-> t.n, data |-> t.data, k |-> t.k])
        ELSE IF walk # NoErr \/ (np \in DOMAIN tr1 /\ tr1[np].kind = "dir")
             THEN Invoke(IF walk # NoErr THEN S1 ELSE [S1 EXCEPT !.tree = tr1], t.k,
                         Err(genError(IF walk # NoErr THEN walk ELSE "TypeMismatchError")))
        ELSE LET tr2 == IF np \in DOMAIN tr1 THEN tr1
                        ELSE tr1 @@ (np :> FileNode(<<>>, S.now))
                 S2 == [S1 EXCEPT !.tree = tr2,
                                  !.now = IF np \in DOMAIN tr1 THEN S.now ELSE S.now + 1]
                 S3 == SetDefault(CallUpdPerms(S2, t.n :> DefaultRecord), t.n)
             IN  Spawn(S3, [op |-> "writeClose", n |-> t.n, data |-> t.data, k |-> t.k])

\* "await writable.close()": the content replaces the file's, then cb(null)
DoWriteClose(S, id) ==
    LET t == S.tasks[id]
        S1 == Finish(S, id)
        np == Parts(t.n)
        gone == IF t.n = StorePath THEN S.store.state = "absent" ELSE ~IsFileAt(S.tree, np)
        \* the store's content is replaced by a text that is no mapping
        S2 == IF t.n = StorePath
              THEN [S1 EXCEPT !.store = [state |-> "text", map |-> <<>>]]
              ELSE [S1 EXCEPT !.tree[np] = FileNode(t.data, S.now), !.now = S.now + 1]
    IN  Invoke(IF gone THEN S1 ELSE S2, t.k,
               IF gone THEN Err(genError("NotFoundError")) ELSE Ok(Null))

DoMkdir(S, id) ==
    LET t == S.tasks[id]
        S1 == Finish(S, id)
        np == Parts(t.n)
        walk == WalkError(S.tree, np, TRUE)
    IN  Invoke(IF walk # NoErr THEN S1 ELSE [S1 EXCEPT !.tree = MkDirs(S.tree, np)], t.k,
               IF walk # NoErr THEN Err(genError(walk)) ELSE Ok(Null))

\* readdir: the names of the directory's entries, ".TFS_STORE" left out (the
\* store is not a node of tree)
DoReaddir(S, id) ==
    LET t == S.tasks[id]
        S1 == Finish(S, id)
        np == Parts(t.n)
        walk == WalkError(S.tree, np, FALSE)
    IN  Invoke(S1, t.k, IF walk # NoErr THEN Err(genError(walk))
                        ELSE Ok({Last(c) : c \in ChildrenOf(S.tree, np)}))

\* unlink and rmdir after their permission check: dirHandle.removeEntry(name)
DoRemove(S, id) ==
    LET t == S.tasks[id]
        S1 == Finish(S, id)
        np == Parts(t.n)
        walk == WalkError(S.tree, Parent(np), FALSE)
        rem == RemoveEntryError(S.tree, np)
        err == IF t.n = StorePath
               THEN IF S.store.state = "absent" THEN "NotFoundError" ELSE NoErr
               ELSE IF walk # NoErr THEN walk ELSE rem
        S2 == IF t.n = StorePath
              THEN [S1 EXCEPT !.store = [state |-> "absent", map |-> <<>>]]
              ELSE [S1 EXCEPT !.tree = RemoveEntry(S.tree, np)]
    IN  Invoke(IF err # NoErr THEN S1 ELSE S2, t.k,
               IF err # NoErr THEN Err(genError(err)) ELSE Ok(Null))

\* readlink: no callback is made when the file holds no marker
DoReadlink(S, id) ==
    LET t == S.tasks[id]
        S1 == Finish(S, id)
        np == Parts(t.n)
        tr == S.tree
        walk == WalkError(tr, Parent(np), FALSE)
        err == IF walk # NoErr THEN walk ELSE FileHandleError(tr, np)
    IN  IF err = NoErr /\ ~ExecSymlink(tr[np].data).ok THEN S1
        ELSE Invoke(S1, t.k, IF err # NoErr THEN Err(genError(err))
                             ELSE Ok(ExecSymlink(tr[np].data).target))

\* updPerms up to JSON.parse(await store.text()): the store is created when
\* absent, and parsing an empty store throws, which ends updPerms
DoUpdRead(S, id) ==
    LET t == S.tasks[id]
        S1 == Finish(S, id)
    IN  IF S.store.state = "json"
        THEN Spawn(S1, [op |-> "updWrite",
                        map |-> [q \in DOMAIN S.store.map \cup DOMAIN t.rec |->
                                    IF q \in DOMAIN t.rec THEN t.rec[q] ELSE S.store.map[q]]])
        ELSE IF S.store.state = "absent"
             THEN [S1 EXCEPT !.store = [state |-> "empty", map |-> <<>>]]
        ELSE S1

\* the constructor: "this.promises.exists(".TFS_STORE").then(async exists => ...)";
\* exists comes from stat, which looks the store's entry up in the root
DoCtorExists(S, id) ==
    LET t == S.tasks[id]
        S1 == Finish(S, id)
    IN  IF S.store.state = "absent" THEN Spawn(S1, [op |-> "ctorCreate", k |-> t.k])
        ELSE Spawn(S1, [op |-> "ctorRead", k |-> t.k])

\* "await this.handle.getFileHandle(".TFS_STORE", {create: true})"
DoCtorCreate(S, id) ==
    LET t == S.tasks[id]
        S1 == [Finish(S, id) EXCEPT !.store = IF S.store.state = "absent"
                                              THEN [state |-> "empty", map |-> <<>>] ELSE @]
    IN  Spawn(S1, [op |-> "ctorClose", k |-> t.k])

\* createWritable, write and "await writable.close()": the store holds the
\* bootstrap record; then this.promises.readFile(".TFS_STORE", "utf8") is called
DoCtorClose(S, id) ==
    LET t == S.tasks[id]
        S1 == [Finish(S, id) EXCEPT
                  !.store = [state |-> "json", map |-> (StorePath :> BootstrapRecord)]]
    IN  Spawn(S1, [op |-> "ctorRead", k |-> t.k])

\* "this.perms = await this.promises.readFile(...).then(data => JSON.parse(data))
\* .catch(() => ({}))"; k is told that the initialization is over
DoCtorRead(S, id) ==
    LET t == S.tasks[id]
        S1 == Finish(S, id)
    IN  Invoke([S1 EXCEPT !.perms = IF S.store.state = "json" THEN S.store.map ELSE <<>>],
               t.k, Ok(Null))

\* updPerms from createWritable to close: the merged mapping replaces the store
DoUpdWrite(S, id) ==
    [Finish(S, id) EXCEPT !.store = [state |-> "json", map |-> S.tasks[id].map]]

Pending(op) == {id \in DOMAIN tasks : tasks[id].op = op}

CompleteStat == \E id \in Pending("stat") : Apply(DoStat(Cur, id)) /\ UNCHANGED <<calls, normVars>>
CompleteLstat == \E id \in Pending("lstat") : Apply(DoLstat(Cur, id)) /\ UNCHANGED <<calls, normVars>>
CompleteReadFile == \E id \in Pending("readFile") : Apply(DoReadFile(Cur, id)) /\ UNCHANGED <<calls, normVars>>
CompleteMkParents == \E id \in Pending("mkParents") : Apply(DoMkParents(Cur, id)) /\ UNCHANGED <<calls, normVars>>
CompleteWriteWalk == \E id \in Pending("writeWalk") : Apply(DoWriteWalk(Cur, id)) /\ UNCHANGED <<calls, normVars>>
CompleteWriteOpen == \E id \in Pending("writeOpen") : Apply(DoWriteOpen(Cur, id)) /\ UNCHANGED <<calls, normVars>>
CompleteWriteClose == \E id \in Pending("writeClose") : Apply(DoWriteClose(Cur, id)) /\ UNCHANGED <<calls, normVars>>
CompleteMkdir == \E id \in Pending("mkdir") : Apply(DoMkdir(Cur, id)) /\ UNCHANGED <<calls, normVars>>
CompleteReaddir == \E id \in Pending("readdir") : Apply(DoReaddir(Cur, id)) /\ UNCHANGED <<calls, normVars>>
CompleteUnlink == \E id \in Pending("unlink") : Apply(DoRemove(Cur, id)) /\ UNCHANGED <<calls, normVars>>
CompleteRmdir == \E id \in Pending("rmdir") : Apply(DoRemove(Cur, id)) /\ UNCHANGED <<calls, normVars>>
CompleteReadlink == \E id \in Pending("readlink") : Apply(DoReadlink(Cur, id)) /\ UNCHANGED <<calls, normVars>>
CompleteUpdRead == \E id \in Pending("updRead") : Apply(DoUpdRead(Cur, id)) /\ UNCHANGED <<calls, normVars>>
CompleteUpdWrite == \E id \in Pending("updWrite") : Apply(DoUpdWrite(Cur, id)) /\ UNCHANGED <<calls, normVars>>
CompleteCtorExists == \E id \in Pending("ctorExists") : Apply(DoCtorExists(Cur, id)) /\ UNCHANGED <<calls, normVars>>
CompleteCtorCreate == \E id \in Pending("ctorCreate") : Apply(DoCtorCreate(Cur, id)) /\ UNCHANGED <<calls, normVars>>
CompleteCtorClose == \E id \in Pending("ctorClose") : Apply(DoCtorClose(Cur, id)) /\ UNCHANGED <<calls, normVars>>
CompleteCtorRead == \E id \in Pending("ctorRead") : Apply(DoCtorRead(Cur, id)) /\ UNCHANGED <<calls, normVars>>

\* ------------------------------------------------------------------ client
\* how many calls the client makes when it exercises the permission checks,
\* the links, and a recursive removal or copy
MaxPermCalls == 3
MaxLinkCalls == 3
MaxTreeCalls == 3

\* the client makes its calls one after the other: the next one once the
\* callback of the last one has been invoked, or nothing is pending any more
ClientReady(max) ==
    /\ Len(calls) < max
    /\ IF calls = <<>> THEN TRUE
       ELSE res[Len(calls)] # <<>> \/ DOMAIN tasks = {}

\* the state with the callback slot of the call being made opened
Begin == [Cur EXCEPT !.res = Append(res, <<>>)]

\* nothing pending can change the tree: only updPerms calls are under way
TreeQuiet == \A id \in DOMAIN tasks : tasks[id].op \in {"updRead", "updWrite"}

\* the call is recorded with the tree and this.perms it was made in
Record(op, a, b, x) ==
    calls' = Append(calls, [op |-> op, a |-> a, b |-> b, x |-> x,
                            pre |-> tree, prePerms |-> perms, quiet |-> TreeQuiet])

Here == Top(Len(calls) + 1)

\* the path strings and contents the client uses
P_f == <<"/", "f">>
P_d == <<"/", "d">>
P_df == <<"/", "d", "/", "f">>
P_e == <<"/", "e">>
Text_x == <<"x">>
Text_y == <<"y", "y">>

\* no watch has been started
WatchIdle == watcher = NoWatcher /\ events = <<>>

\* the harness of the normalizers at rest
NormIdle == nIn = <<>> /\ nKind = "FS" /\ nOut = <<>>

\* the state after the constructor has run to its end on an empty backend: the
\* store holds the bootstrap record and this.perms is the store's content
FreshInit ==
    /\ tree = <<>>
    /\ store = [state |-> "json", map |-> (StorePath :> BootstrapRecord)]
    /\ perms = (StorePath :> BootstrapRecord)
    /\ currPath = <<"/">>
    /\ cwd = <<"/">>
    /\ tasks = <<>>
    /\ frames = <<>>
    /\ nid = 1
    /\ now = 1
    /\ calls = <<>>
    /\ res = <<>>
    /\ WatchIdle
    /\ NormIdle

\* the call is over: its callback has been invoked
Returned(c) == c \in 1..Len(calls) /\ res[c] # <<>>
\* the content of the file at normalized path n in tree t, <<>> when there is none
ContentAt(t, n) == IF IsFileAt(t, Parts(n)) THEN t[Parts(n)].data ELSE <<>>

\* --------------------------------------------- chmod, then writeFile (C1)
ChmodWrite ==
    /\ ClientReady(MaxPermCalls)
    /\ \E p \in {P_f, P_df}, d \in {Text_x, Text_y} :
          /\ Record("writeFile", p, d, 0)
          /\ Apply(CallWriteFile(Begin, p, Data(d), "utf8", Here))
    /\ UNCHANGED normVars

ChmodChmod ==
    /\ ClientReady(MaxPermCalls)
    /\ \E p \in {P_f, P_df}, mode \in {292, 420, 365} :
          /\ Record("chmod", p, <<>>, mode)
          /\ Apply(CallChmod(Begin, p, mode, Here))
    /\ UNCHANGED normVars

ChmodNext ==
    \/ ChmodWrite
    \/ ChmodChmod
    \/ CompleteWriteOpen
    \/ CompleteWriteClose
    \/ CompleteUpdRead
    \/ CompleteUpdWrite

SpecChmod == FreshInit /\ [][ChmodNext]_vars

\* call j is a writeFile made right after a chmod of the same path that
\* succeeded with a mode granting neither write nor append
AfterDenyingChmod(j) ==
    /\ j \in 2..Len(calls)
    /\ calls[j].op = "writeFile"
    /\ calls[j - 1].op = "chmod"
    /\ normalizePath(calls[j - 1].a, <<"/">>) = normalizePath(calls[j].a, <<"/">>)
    /\ res[j - 1][1].err = NoErr
    /\ ModePerms(calls[j - 1].x) \cap {"w", "a"} = {}

\* C1: after chmod(p, mode) has completed with a mode that grants neither write
\* nor append, a following writeFile(p, data) reports EACCES to its callback and
\* the content of p is unchanged.
C1_WriteAfterChmodRefused ==
    \A j \in 1..Len(calls) :
        (AfterDenyingChmod(j) /\ Returned(j)) =>
            /\ res[j][1].err = "EACCES"
            /\ ContentAt(res[j][1].post, calls[j].a) = ContentAt(calls[j].pre, calls[j].a)

\* ------------------------- a record that denies writing (C2)
\* the trees and records an earlier session can have left behind: a record
\* outlives its path (nothing deletes records), and chmod's record reaches the store
PersistedTrees ==
    { <<>>,
      (<<<<"f">>>> :> FileNode(Text_x, 0)),
      (<<<<"d">>>> :> DirNode),
      (<<<<"d">>>> :> DirNode) @@ (<<<<"d">>, <<"f">>>> :> FileNode(Text_x, 0)) }
PersistedRecords == {{"r"}, {"a"}}
PersistedMaps ==
    { (StorePath :> BootstrapRecord) @@ m :
        m \in UNION { [ps -> {[perms |-> l, uid |-> 0, gid |-> 0] : l \in PersistedRecords}] :
                      ps \in SUBSET {P_f, P_d, P_df} } }

\* the state after the constructor has run to its end on a backend an earlier
\* session left: this.perms is the parsed content of the store
PersistedInit ==
    /\ tree \in PersistedTrees
    /\ \E m \in PersistedMaps :
          /\ store = [state |-> "json", map |-> m]
          /\ perms = m
    /\ currPath = <<"/">>
    /\ cwd = <<"/">>
    /\ tasks = <<>>
    /\ frames = <<>>
    /\ nid = 1
    /\ now = 1
    /\ calls = <<>>
    /\ res = <<>>
    /\ WatchIdle
    /\ NormIdle

DenyWrite ==
    /\ ClientReady(MaxPermCalls - 1)
    /\ \E p \in {P_f, P_d, P_df} :
          /\ Record("writeFile", p, Text_y, 0)
          /\ Apply(CallWriteFile(Begin, p, Data(Text_y), "utf8", Here))
    /\ UNCHANGED normVars

DenyUnlink ==
    /\ ClientReady(MaxPermCalls - 1)
    /\ \E p \in {P_f, P_d, P_df} :
          /\ Record("unlink", p, <<>>, 0)
          /\ Apply(CallUnlink(Begin, p, Here))
    /\ UNCHANGED normVars

DenyRmdir ==
    /\ ClientReady(MaxPermCalls - 1)
    /\ \E p \in {P_f, P_d, P_df} :
          /\ Record("rmdir", p, <<>>, 0)
          /\ Apply(CallRmdir(Begin, p, Here))
    /\ UNCHANGED normVars

DenyNext ==
    \/ DenyWrite
    \/ DenyUnlink
    \/ DenyRmdir
    \/ CompleteMkParents
    \/ CompleteWriteOpen
    \/ CompleteWriteClose
    \/ CompleteUnlink
    \/ CompleteRmdir
    \/ CompleteUpdRead
    \/ CompleteUpdWrite

SpecDeny == PersistedInit /\ [][DenyNext]_vars

\* call j is a writeFile, unlink or rmdir of a path whose record in this.perms
\* holds neither "w" nor "a"
WriteDenied(j) ==
    /\ calls[j].op \in {"writeFile", "unlink", "rmdir"}
    /\ Denied(calls[j].prePerms, normalizePath(calls[j].a, <<"/">>), {"w", "a"})

\* C2: for a path whose record in this.perms holds neither "w" nor "a",
\* writeFile, unlink and rmdir each report EACCES to the callback and change
\* nothing in the backend: no file written or removed, no directory created.
\* (Stated for the last call made, with nothing else under way that could
\* change the tree, so that every change of the tree is that call's.)
C2_DeniedCallChangesNothing ==
    \A j \in 1..Len(calls) :
        (WriteDenied(j) /\ j = Len(calls) /\ calls[j].quiet) =>
            /\ Len(res[j]) = 1
            /\ res[j][1].err = "EACCES"
            /\ tree = calls[j].pre

\* the part of C2 the code keeps: the refusal itself, and unlink and rmdir
\* leaving the tree alone
C2_DeniedRemoveChangesNothing ==
    \A j \in 1..Len(calls) :
        (WriteDenied(j) /\ j = Len(calls) /\ calls[j].quiet) =>
            /\ Len(res[j]) = 1
            /\ res[j][1].err = "EACCES"
            /\ calls[j].op # "writeFile" => tree = calls[j].pre

\* ------------------------------------------- symlink, then readlink (C3)
\* how many pieces a link target is put together from
MaxTargetPieces == 2

P_l == <<"/", "l">>
P_dl == <<"/", "d", "/", "l">>

\* the pieces of the targets: names, separators, colons, the words of the
\* marker and a line break
TargetPieces == {<<"a">>, <<"/">>, <<":">>, FileStr, <<":">> \o DirStr, <<"\n">>}

RECURSIVE Concats(_, _)
\* the strings made of at most n pieces
Concats(pieces, n) ==
    IF n = 0 THEN {<<>>}
    ELSE LET shorter == Concats(pieces, n - 1)
         IN  shorter \cup {s \o q : s \in shorter, q \in pieces}

Targets == Concats(TargetPieces, MaxTargetPieces)

\* how many calls the client of the link reader makes
MaxReadlinkCalls == 2

\* the client makes one link, and reads links before and after it
ReadlinkSymlink ==
    /\ ClientReady(MaxReadlinkCalls)
    /\ \A j \in 1..Len(calls) : calls[j].op # "symlink"
    /\ \E t \in Targets, l \in {P_l, P_dl}, ty \in LinkTypes :
          /\ Record("symlink", t, l, ty)
          /\ Apply(CallSymlink(Begin, t, l, ty, Here))
    /\ UNCHANGED normVars

ReadlinkReadlink ==
    /\ ClientReady(MaxReadlinkCalls)
    /\ \E l \in {P_l, P_dl} :
          /\ Record("readlink", l, <<>>, 0)
          /\ Apply(CallReadlink(Begin, l, Here))
    /\ UNCHANGED normVars

ReadlinkNext ==
    \/ ReadlinkSymlink
    \/ ReadlinkReadlink
    \/ CompleteWriteOpen
    \/ CompleteWriteClose
    \/ CompleteReadlink
    \/ CompleteUpdRead
    \/ CompleteUpdWrite

SpecReadlink == FreshInit /\ [][ReadlinkNext]_vars

\* call j is a readlink of the link that call j - 1, a symlink with a
\* non-empty target without line breaks, reported made
ReadsLinkJustMade(j) ==
    /\ j \in 2..Len(calls)
    /\ calls[j].op = "readlink"
    /\ calls[j - 1].op = "symlink"
    /\ normalizePath(calls[j - 1].b, <<"/">>) = normalizePath(calls[j].a, <<"/">>)
    /\ calls[j - 1].a # <<>>
    /\ \A i \in 1..Len(calls[j - 1].a) : calls[j - 1].a[i] \notin LineBreaks
    /\ res[j - 1][1].err = NoErr

\* C3: for every link path l, every type in {file, dir, junction} and every
\* non-empty target t without line breaks: after symlink(t, l, type) has reported
\* success, readlink(l) returns exactly t (once the read is over, its callback
\* has been invoked once, with no error and with t).
C3_ReadlinkReturnsTarget ==
    \A j \in 1..Len(calls) :
        (ReadsLinkJustMade(j) /\ (Returned(j) \/ DOMAIN tasks = {})) =>
            /\ Len(res[j]) = 1
            /\ res[j][1].err = NoErr
            /\ res[j][1].val = calls[j - 1].a

\* readlink has returned a target that itself ends in ":dir", of a link of type file
C3_Witness ==
    /\ Len(calls) = 2
    /\ ReadsLinkJustMade(2)
    /\ Returned(2)
    /\ calls[1].a = <<"a", ":">> \o DirStr
    /\ calls[1].x = FileStr
    /\ res[2][1].val = <<"a", ":", "d", "i", "r">>

\* ------------------------------------------ lstat and stat of links (C4, C5)
P_m == <<"/", "m">>

\* the state after writeFile("/f", "x") and mkdir("/d") have run to their end
\* on a fresh file system
LinkInit ==
    /\ tree = (<<<<"d">>>> :> DirNode) @@ (<<<<"f">>>> :> FileNode(Text_x, 0))
    /\ \E m \in {(StorePath :> BootstrapRecord) @@ (P_d :> DefaultRecord) @@ (P_f :> DefaultRecord)} :
          /\ store = [state |-> "json", map |-> m]
          /\ perms = m
    /\ currPath = <<"/">>
    /\ cwd = <<"/">>
    /\ tasks = <<>>
    /\ frames = <<>>
    /\ nid = 1
    /\ now = 1
    /\ calls = <<>>
    /\ res = <<>>
    /\ WatchIdle
    /\ NormIdle

\* the links the client makes: /l to the directory, to the file or to nothing,
\* /m to the same or to /l (no chain leads back to its start: stat would follow
\* it for ever)
LinkChoices ==
    {<<t, P_l>> : t \in {P_d, P_f, P_e}} \cup {<<t, P_m>> : t \in {P_d, P_f, P_l}}

LinkSymlink ==
    /\ ClientReady(MaxLinkCalls)
    /\ \E c \in LinkChoices, ty \in {FileStr, DirStr} :
          /\ Record("symlink", c[1], c[2], ty)
          /\ Apply(CallSymlink(Begin, c[1], c[2], ty, Here))
    /\ UNCHANGED normVars

LinkLstat ==
    /\ ClientReady(MaxLinkCalls)
    /\ \E l \in {P_l, P_m} :
          /\ Record("lstat", l, <<>>, 0)
          /\ Apply(CallLstat(Begin, l, Here))
    /\ UNCHANGED normVars

LinkStatCall ==
    /\ ClientReady(MaxLinkCalls)
    /\ \E l \in {P_l, P_m} :
          /\ Record("stat", l, <<>>, 0)
          /\ Apply(CallStat(Begin, l, Here))
    /\ UNCHANGED normVars

LinkNext ==
    \/ LinkSymlink
    \/ LinkLstat
    \/ LinkStatCall
    \/ CompleteWriteOpen
    \/ CompleteWriteClose
    \/ CompleteStat
    \/ CompleteLstat
    \/ CompleteUpdRead
    \/ CompleteUpdWrite

SpecLink == LinkInit /\ [][LinkNext]_vars

\* in tree t the normalized path n holds a link marker
IsLinkAt(t, n) ==
    /\ n # <<"/">>
    /\ IsFileAt(t, Parts(n))
    /\ ExecSymlink(t[Parts(n)].data).ok

RECURSIVE FinalKind(_, _, _)
\* what the chain of links starting at n ends in, in tree t: "dir", "file",
\* "none" for a missing target, "loop" when it has not ended after fuel links
FinalKind(t, n, fuel) ==
    IF n = <<"/">> THEN "dir"
    ELSE IF IsLinkAt(t, n)
         THEN IF fuel = 0 THEN "loop"
              ELSE FinalKind(t, normalizePath(ExecSymlink(t[Parts(n)].data).target, <<"/">>),
                             fuel - 1)
    ELSE IF IsFileAt(t, Parts(n)) THEN "file"
    ELSE IF IsDirAt(t, Parts(n)) THEN "dir"
    ELSE "none"

\* call j, made with nothing under way that changes the tree, names a link
ProbesLink(j, op) ==
    /\ calls[j].op = op
    /\ calls[j].quiet
    /\ IsLinkAt(calls[j].pre, normalizePath(calls[j].a, <<"/">>))
    /\ Returned(j)

\* C4: for every path l that holds a symbolic link, the stats lstat(l) hands
\* to its callback have isSymbolicLink() true and describe the link's own
\* record (the size of the marker), not the target's.
C4_LstatReportsLink ==
    \A j \in 1..Len(calls) :
        ProbesLink(j, "lstat") =>
            /\ res[j][1].err = NoErr
            /\ res[j][1].val.isSymbolicLink
            /\ res[j][1].val.size = Len(ContentAt(calls[j].pre, normalizePath(calls[j].a, <<"/">>)))

\* C5: for every path l that starts a chain of one or more links ending in a
\* directory or a regular file, the stats stat(l) hands to its callback report
\* the final target's type: isDirectory() is true exactly when the chain ends in
\* a directory, isFile() exactly when it ends in a regular file.
C5_StatReportsFinalTarget ==
    \A j \in 1..Len(calls) :
        LET kind == FinalKind(calls[j].pre, normalizePath(calls[j].a, <<"/">>), MaxLinkCalls)
        IN  (ProbesLink(j, "stat") /\ kind \in {"dir", "file"}) =>
                /\ res[j][1].err = NoErr
                /\ res[j][1].val.isDirectory = (kind = "dir")
                /\ res[j][1].val.isFile = (kind = "file")

\* the part of C5 the code keeps: a chain of exactly one link
C5_StatReportsDirectTarget ==
    \A j \in 1..Len(calls) :
        LET n == normalizePath(calls[j].a, <<"/">>)
            kind == FinalKind(calls[j].pre, n, MaxLinkCalls)
        IN  (/\ ProbesLink(j, "stat")
             /\ kind \in {"dir", "file"}
             /\ ~IsLinkAt(calls[j].pre,
                          normalizePath(ExecSymlink(ContentAt(calls[j].pre, n)).target, <<"/">>))) =>
                /\ res[j][1].err = NoErr
                /\ res[j][1].val.isDirectory = (kind = "dir")
                /\ res[j][1].val.isFile = (kind = "file")

\* ------------------------------------------------- recursive removal (C6)
\* the path string of a node
PathOf(np) == <<"/">> \o Join(np)

\* this.perms and the store after every node of tree t was made by a writeFile
\* or a mkdir with a callback: the default record for each
DefaultMap(t) ==
    (StorePath :> BootstrapRecord) @@ [q \in {PathOf(np) : np \in DOMAIN t} |-> DefaultRecord]

N_x == <<"x">>
N_y == <<"y">>
N_z == <<"z">>
N_f == <<"f">>
N_g == <<"g">>

\* the trees under /x the removal is tried on: empty, files only, an empty
\* subdirectory, and subdirectories that hold a file one and two levels down
RmTrees ==
    { (<<N_x>> :> DirNode),
      (<<N_x>> :> DirNode) @@ (<<N_x, N_f>> :> FileNode(Text_x, 0)),
      (<<N_x>> :> DirNode) @@ (<<N_x, N_f>> :> FileNode(Text_x, 0))
          @@ (<<N_x, N_g>> :> FileNode(Text_y, 0)),
      (<<N_x>> :> DirNode) @@ (<<N_x, N_y>> :> DirNode)
          @@ (<<N_x, N_f>> :> FileNode(Text_x, 0)),
      (<<N_x>> :> DirNode) @@ (<<N_x, N_y>> :> DirNode)
          @@ (<<N_x, N_y, N_f>> :> FileNode(Text_x, 0)),
      (<<N_x>> :> DirNode) @@ (<<N_x, N_y>> :> DirNode) @@ (<<N_x, N_y, N_z>> :> DirNode)
          @@ (<<N_x, N_y, N_z, N_f>> :> FileNode(Text_x, 0)) }

\* the state after a session has built one of the trees
RmInit ==
    /\ tree \in RmTrees
    /\ store = [state |-> "json", map |-> DefaultMap(tree)]
    /\ perms = DefaultMap(tree)
    /\ currPath = <<"/">>
    /\ cwd = <<"/">>
    /\ tasks = <<>>
    /\ frames = <<>>
    /\ nid = 1
    /\ now = 1
    /\ calls = <<>>
    /\ res = <<>>
    /\ WatchIdle
    /\ NormIdle

P_x == <<"/", "x">>
P_xy == <<"/", "x", "/", "y">>

RmRm ==
    /\ ClientReady(MaxTreeCalls)
    /\ \E p \in {P_x, P_xy}, recursive \in BOOLEAN :
          /\ Record("rm", p, <<>>, IF recursive THEN 1 ELSE 0)
          /\ Apply(CallRm(Begin, p, recursive, Here))
    /\ UNCHANGED normVars

RmNext ==
    \/ RmRm
    \/ CompleteReaddir
    \/ CompleteStat
    \/ CompleteUnlink
    \/ CompleteRmdir

SpecRm == RmInit /\ [][RmNext]_vars

\* call j is the last call made, a recursive rm of a directory, made with
\* nothing else under way
RemovesTree(j) ==
    /\ j = Len(calls)
    /\ calls[j].op = "rm"
    /\ calls[j].x = 1
    /\ calls[j].quiet
    /\ IsDirAt(calls[j].pre, Parts(PathJoin(<<"/">>, calls[j].a)))

\* C6: for every directory tree rooted at p, of any depth, with the default
\* permission records and nothing else running: Shell.rm(p, {recursive: true})
\* reports success (once nothing is pending any more its callback has been
\* invoked, once and without error), and from then on neither p nor any
\* descendant of p is in the backend.
C6_RmRecursiveRemovesTree ==
    \A j \in 1..Len(calls) :
        RemovesTree(j) =>
            /\ DOMAIN tasks = {} => Len(res[j]) = 1
            /\ Returned(j) =>
                  /\ res[j][1].err = NoErr
                  /\ Subtree(tree, Parts(PathJoin(<<"/">>, calls[j].a))) = {}

\* the part of C6 the code keeps: a tree whose subdirectories are all empty
C6_RmRecursiveRemovesFlatTree ==
    \A j \in 1..Len(calls) :
        LET np == Parts(PathJoin(<<"/">>, calls[j].a))
        IN  (RemovesTree(j) /\ \A c \in Subtree(calls[j].pre, np) : Len(c) <= Len(np) + 1) =>
                /\ DOMAIN tasks = {} => Len(res[j]) = 1
                /\ Returned(j) =>
                      /\ res[j][1].err = NoErr
                      /\ Subtree(tree, np) = {}

\* ---------------------------------------------- copy of a directory (C7)
N_s == <<"s">>
N_d == <<"d">>
N_t == <<"t">>
P_s == <<"/", "s">>
P_t == <<"/", "t">>
P_sf == <<"/", "s", "/", "f">>
P_tf == <<"/", "t", "/", "f">>
P_tdg == <<"/", "t", "/", "d", "/", "g">>

\* the trees under /s that are copied: empty, one file, two files, an empty
\* subdirectory, a file in a subdirectory
CpSources ==
    { (<<N_s>> :> DirNode),
      (<<N_s>> :> DirNode) @@ (<<N_s, N_f>> :> FileNode(Text_x, 0)),
      (<<N_s>> :> DirNode) @@ (<<N_s, N_f>> :> FileNode(Text_x, 0))
          @@ (<<N_s, N_g>> :> FileNode(Text_y, 0)),
      (<<N_s>> :> DirNode) @@ (<<N_s, N_d>> :> DirNode),
      (<<N_s>> :> DirNode) @@ (<<N_s, N_d>> :> DirNode)
          @@ (<<N_s, N_d, N_g>> :> FileNode(Text_y, 0)) }

\* what is at /t before the copy: nothing, a directory, or a file
CpDestinations == {<<>>, (<<N_t>> :> DirNode), (<<N_t>> :> FileNode(Text_y, 0))}

\* the records /s/f can have: the default one, or one a chmod sent to the store
\* in an earlier session
CpRecords == {{"a"}, {"r"}, {"w"}}

\* the state after the constructor has run to its end on a backend an earlier
\* session left
CpInit ==
    /\ tree \in {src @@ dst : src \in CpSources, dst \in CpDestinations}
    /\ \E l \in CpRecords :
          LET m == [q \in DOMAIN DefaultMap(tree) |->
                       IF q = P_sf THEN [perms |-> l, uid |-> 0, gid |-> 0]
                       ELSE DefaultMap(tree)[q]]
          IN  /\ store = [state |-> "json", map |-> m]
              /\ perms = m
    /\ currPath = <<"/">>
    /\ cwd = <<"/">>
    /\ tasks = <<>>
    /\ frames = <<>>
    /\ nid = 1
    /\ now = 1
    /\ calls = <<>>
    /\ res = <<>>
    /\ WatchIdle
    /\ NormIdle

\* how many calls the client of the copy makes: the copy, then its probes
MaxCopyCalls == 2

CpCp ==
    /\ calls = <<>>
    /\ Record("cp", P_s, P_t, 0)
    /\ Apply(CallCp(Begin, P_s, P_t, Here))
    /\ UNCHANGED normVars

CpReadFile ==
    /\ calls # <<>>
    /\ ClientReady(MaxCopyCalls)
    /\ \E p \in {P_tf, P_tdg} :
          /\ Record("readFile", p, <<>>, 0)
          /\ Apply(CallReadFile(Begin, p, Here))
    /\ UNCHANGED normVars

CpStat ==
    /\ calls # <<>>
    /\ ClientReady(MaxCopyCalls)
    /\ Record("stat", P_t, <<>>, 0)
    /\ Apply(CallStat(Begin, P_t, Here))
    /\ UNCHANGED normVars

CpNext ==
    \/ CpCp
    \/ CpReadFile
    \/ CpStat
    \/ CompleteStat
    \/ CompleteMkdir
    \/ CompleteReaddir
    \/ CompleteReadFile
    \/ CompleteWriteOpen
    \/ CompleteWriteClose
    \/ CompleteUpdRead
    \/ CompleteUpdWrite

SpecCp == CpInit /\ [][CpNext]_vars

\* the regular files of tree t below the directory at np, as paths relative to it
FilesBelow(t, np) ==
    {SubSeq(c, Len(np) + 1, Len(c)) : c \in {q \in Subtree(t, np) : IsFileAt(t, q)}}

\* call j is the first call, a cp of the directory /s to /t, where /t is no
\* file
CopiesTree(j) ==
    /\ j = 1
    /\ j \in 1..Len(calls)
    /\ calls[j].op = "cp"
    /\ IsDirAt(calls[j].pre, Parts(calls[j].a))
    /\ ~IsFileAt(calls[j].pre, Parts(calls[j].b))

\* the calls after call j read what was at /s when call j was made
CopyAsSource(j, i) ==
    LET src == Parts(calls[j].a)
        dst == Parts(calls[j].b)
        np == Parts(calls[i].a)
    IN  /\ calls[i].op = "readFile" =>
              (src \o SubSeq(np, Len(dst) + 1, Len(np)) \in DOMAIN calls[j].pre =>
                  /\ res[i][1].err = NoErr
                  /\ res[i][1].val = calls[j].pre[src \o SubSeq(np, Len(dst) + 1, Len(np))].data)
        /\ calls[i].op = "stat" =>
              /\ res[i][1].err = NoErr
              /\ res[i][1].val.isDirectory

\* what cp has to have done when it reports, and what is seen afterwards
CopyDone(j) ==
    LET src == Parts(calls[j].a)
        dst == Parts(calls[j].b)
    IN  /\ DOMAIN tasks = {} => Len(res[j]) = 1
        /\ Returned(j) =>
              /\ res[j][1].err = NoErr
              /\ IsDirAt(res[j][1].post, dst)
              /\ \A r \in FilesBelow(calls[j].pre, src) :
                    /\ IsFileAt(res[j][1].post, dst \o r)
                    /\ res[j][1].post[dst \o r].data = calls[j].pre[src \o r].data
              /\ \A i \in (j + 1)..Len(calls) : Returned(i) => CopyAsSource(j, i)

\* C7: for every directory tree rooted at src and every dst outside that tree
\* (dst being absent or a directory): cp(src, dst) reports success, after which
\* stat(dst).isDirectory() is true and, for every regular file at relative path
\* r under src, readFile(dst/r) returns the content of src/r.
C7_CpCopiesTree ==
    \A j \in 1..Len(calls) : CopiesTree(j) => CopyDone(j)

\* the part of C7 the code keeps: a tree all of whose files can be read
C7_CpCopiesReadableTree ==
    \A j \in 1..Len(calls) :
        (CopiesTree(j) /\ ~Denied(calls[j].prePerms, P_sf, {"r", "a"})) => CopyDone(j)

\* ---------------------------------------------------- the watcher (C8, C9)
\* how many times the interval fires
MaxTicks == 1

N_w == <<"w">>
P_w == <<"/", "w">>
P_wf == <<"/", "w", "/", "f">>

\* the state after a session has made /w, empty or with the file /w/g
WatchInit ==
    /\ tree \in { (<<N_w>> :> DirNode),
                  (<<N_w>> :> DirNode) @@ (<<N_w, N_g>> :> FileNode(Text_y, 0)) }
    /\ store = [state |-> "json", map |-> DefaultMap(tree)]
    /\ perms = DefaultMap(tree)
    /\ currPath = <<"/">>
    /\ cwd = <<"/">>
    /\ tasks = <<>>
    /\ frames = <<>>
    /\ nid = 1
    /\ now = 1
    /\ calls = <<>>
    /\ res = <<>>
    /\ WatchIdle
    /\ NormIdle

\* watch("/w", {recursive}, listener 1)
WatchWatch ==
    /\ watcher.state = "none"
    /\ \E recursive \in BOOLEAN, closer \in {0, 1, 2} :
          Apply(CallWatch(Cur, P_w, recursive, closer, P_wf))
    /\ UNCHANGED <<calls, normVars>>

\* watcher.on("rename", listener 2)
WatchOn ==
    /\ watcher.state = "open"
    /\ watcher.on2 = "no"
    /\ Apply([Cur EXCEPT !.watcher.listeners.rename = Append(@, 2),
                         !.watcher.on2 = IF watcher.closed THEN "closed" ELSE "open"])
    /\ UNCHANGED <<calls, normVars>>

\* the interval fires: scan()
WatchTick ==
    /\ watcher.interval
    /\ watcher.ticks < MaxTicks
    /\ Apply(CallScan([Cur EXCEPT !.watcher.ticks = @ + 1], P_wf))
    /\ UNCHANGED <<calls, normVars>>

\* watcher.close(), called by the client
WatchClose ==
    /\ watcher.state = "open"
    /\ ~watcher.closed
    /\ Apply(CloseWatcher(Cur))
    /\ UNCHANGED <<calls, normVars>>

\* writeFile("/w/f", "x"), once, while the watch is on
WatchWrite ==
    /\ watcher.state = "open"
    /\ calls = <<>>
    /\ Record("writeFile", P_wf, Text_x, 0)
    /\ Apply(CallWriteFile(Begin, P_wf, Data(Text_x), "utf8", Here))
    /\ UNCHANGED normVars

WatchNext ==
    \/ WatchWatch
    \/ WatchOn
    \/ WatchTick
    \/ WatchClose
    \/ WatchWrite
    \/ CompleteStat
    \/ CompleteReaddir
    \/ CompleteWriteOpen
    \/ CompleteWriteClose
    \/ CompleteUpdRead
    \/ CompleteUpdWrite

SpecWatch == WatchInit /\ [][WatchNext]_vars

\* how many 'rename' events for /w/f listener l has been invoked with
Renames(l) ==
    Cardinality({i \in 1..Len(events) :
                    /\ events[i].listener = l
                    /\ events[i].event = "rename"
                    /\ events[i].file = P_wf})

\* the claim of C8 for the one file the client creates
OneRename ==
    /\ \A l \in {1, 2} : Renames(l) <= 1
    /\ watcher.polled => Renames(1) = 1

\* C8: while a recursive watch on /w is polling (it has not been closed), the
\* creation of /w/f makes each registered listener receive exactly one 'rename'
\* event for /w/f, not two, and not zero once a poll that began after the file
\* was there is over; also when two polls are in flight at once.
C8_OneRenamePerNewFile ==
    (watcher.state = "open" /\ watcher.recursive /\ ~watcher.closed) => OneRename

\* the part of C8 the code keeps: no poll begins while another is under way
C8_OneRenameWithoutOverlap ==
    (watcher.state = "open" /\ watcher.recursive /\ ~watcher.closed /\ ~watcher.overlapped)
        => OneRename

\* C9: after watcher.close() has been called no listener of the watcher is
\* invoked any more: every invocation of a listener was made with closed still
\* false, whether a poll was in flight at the close or close() was called from
\* inside a listener.
C9_NoEventAfterClose ==
    \A i \in 1..Len(events) : ~events[i].closed

\* the part of C9 the code keeps: close() called from outside the listeners,
\* and no listener registered after it
C9_NoEventAfterClientClose ==
    (watcher.closer = 0 /\ watcher.on2 # "closed") => \A i \in 1..Len(events) : ~events[i].closed

\* ----------------------------------------------------- normalizer harness
NormCall(kind, p) ==
    IF kind = "FS" THEN normalizePath(p, <<"/">>) ELSE PathNormalize(p, <<"/">>)

NormInit ==
    /\ nIn \in StrsUpTo(PathChars, MaxPathLen)
    /\ nKind \in {"FS", "Path"}
    /\ nOut = <<>>
    /\ tree = <<>>
    /\ store = [state |-> "json", map |-> (StorePath :> BootstrapRecord)]
    /\ perms = (StorePath :> BootstrapRecord)
    /\ currPath = <<"/">>
    /\ cwd = <<"/">>
    /\ tasks = <<>>
    /\ frames = <<>>
    /\ nid = 1
    /\ now = 1
    /\ calls = <<>>
    /\ res = <<>>
    /\ WatchIdle

\* normalize(p)
NormFirst ==
    /\ nOut = <<>>
    /\ nOut' = <<NormCall(nKind, nIn)>>
    /\ UNCHANGED <<nIn, nKind, fsVars>>

\* normalize(normalize(p))
NormAgain ==
    /\ Len(nOut) = 1
    /\ nOut' = Append(nOut, NormCall(nKind, nOut[1]))
    /\ UNCHANGED <<nIn, nKind, fsVars>>

NormNext == NormFirst \/ NormAgain

SpecNorm == NormInit /\ [][NormNext]_vars

\* C10: normalize(normalize(p)) = normalize(p), for FS.normalizePath and for
\* Path.normalize, with the current directory at its default "/".
C10_NormalizeIdempotent ==
    Len(nOut) = 2 => nOut[2] = nOut[1]

\* a path with "..", "." and an empty segment has been normalized twice
C10_Witness ==
    /\ Len(nOut) = 2
    /\ nIn = <<"a", "/", ".", ".", "/">>
    /\ nOut[1] = <<"/">>

\* ------------------------------------------ dirname and basename (C11)
\* the path is taken apart and put together again:
\* normalize(dirname(p) + "/" + basename(p)), and normalize(p)
RejoinInit ==
    /\ nIn \in StrsUpTo(PathChars, MaxPathLen)
    /\ nKind = "Rejoin"
    /\ nOut = <<>>
    /\ tree = <<>>
    /\ store = [state |-> "json", map |-> (StorePath :> BootstrapRecord)]
    /\ perms = (StorePath :> BootstrapRecord)
    /\ currPath = <<"/">>
    /\ cwd = <<"/">>
    /\ tasks = <<>>
    /\ frames = <<>>
    /\ nid = 1
    /\ now = 1
    /\ calls = <<>>
    /\ res = <<>>
    /\ WatchIdle

RejoinSplit ==
    /\ nOut = <<>>
    /\ nOut' = <<PathDirname(nIn), PathBasename(nIn)>>
    /\ UNCHANGED <<nIn, nKind, fsVars>>

RejoinNormalize ==
    /\ Len(nOut) = 2
    /\ nOut' = nOut \o <<PathNormalize(nOut[1] \o <<"/">> \o nOut[2], <<"/">>),
                         PathNormalize(nIn, <<"/">>)>>
    /\ UNCHANGED <<nIn, nKind, fsVars>>

RejoinNext == RejoinSplit \/ RejoinNormalize

SpecRejoin == RejoinInit /\ [][RejoinNext]_vars

\* C11: for every path string p that is not the root (normalize(p) is not
\* "/"), also one ending in a separator or holding "." and ".." segments:
\* Path.normalize(Path.dirname(p) + "/" + Path.basename(p)) = Path.normalize(p).
C11_RejoinIsNormalize ==
    (Len(nOut) = 4 /\ nOut[4] # <<"/">>) => nOut[3] = nOut[4]

\* the part of C11 the code keeps: p does not end in a separator
C11_RejoinWithoutTrailingSeparator ==
    (Len(nOut) = 4 /\ nOut[4] # <<"/">> /\ nIn[Len(nIn)] # "/") => nOut[3] = nOut[4]

\* ------------------------------------------------ NUL in a path (C12)
MaxNulCalls == 2

\* paths with the character U+0000 in a name, and one without
P_fNul == <<"/", "f", NulChar>>
P_dNulf == <<"/", "d", NulChar, "/", "f">>
NulPaths == {P_fNul, P_dNulf, P_f}

NulWrite ==
    /\ ClientReady(MaxNulCalls)
    /\ \E p \in NulPaths :
          /\ Record("writeFile", p, Text_x, nid)
          /\ Apply(CallWriteFile(Begin, p, Data(Text_x), "utf8", Here))
    /\ UNCHANGED normVars

NulRead ==
    /\ ClientReady(MaxNulCalls)
    /\ \E p \in NulPaths :
          /\ Record("readFile", p, <<>>, nid)
          /\ Apply(CallReadFile(Begin, p, Here))
    /\ UNCHANGED normVars

NulStat ==
    /\ ClientReady(MaxNulCalls)
    /\ \E p \in NulPaths :
          /\ Record("stat", p, <<>>, nid)
          /\ Apply(CallStat(Begin, p, Here))
    /\ UNCHANGED normVars

NulMkdir ==
    /\ ClientReady(MaxNulCalls)
    /\ \E p \in NulPaths :
          /\ Record("mkdir", p, <<>>, nid)
          /\ Apply(CallMkdir(Begin, p, TRUE, Here))
    /\ UNCHANGED normVars

NulUnlink ==
    /\ ClientReady(MaxNulCalls)
    /\ \E p \in NulPaths :
          /\ Record("unlink", p, <<>>, nid)
          /\ Apply(CallUnlink(Begin, p, Here))
    /\ UNCHANGED normVars

\* What the backend does with a name holding U+0000 is left to the
\* implementation: it takes the name as any other (the Complete actions), or it
\* rejects the promise with a TypeError, which the catch hands to genError.
RejectName ==
    \E id \in DOMAIN tasks :
       /\ tasks[id].op \in {"stat", "readFile", "writeOpen", "mkdir", "unlink"}
       /\ PathIsNull(tasks[id].n)
       /\ Apply(Invoke(Finish(Cur, id), tasks[id].k, Err(genError("TypeError"))))
       /\ UNCHANGED <<calls, normVars>>

NulNext ==
    \/ NulWrite \/ NulRead \/ NulStat \/ NulMkdir \/ NulUnlink
    \/ RejectName
    \/ CompleteStat \/ CompleteReadFile \/ CompleteWriteOpen \/ CompleteWriteClose
    \/ CompleteMkdir \/ CompleteUnlink
    \/ CompleteUpdRead \/ CompleteUpdWrite

SpecNul == FreshInit /\ [][NulNext]_vars

\* the call made last has started no backend operation
NoBackendCall(c) == c = Len(calls) => nid = calls[c].x

\* C12: an FS operation given a path that holds a NUL character calls back
\* with EINVAL and makes no call to the backend.
C12_NulPathRefused ==
    \A c \in 1..Len(calls) :
       PathIsNull(calls[c].a) =>
          /\ NoBackendCall(c)
          /\ Returned(c) => res[c][1].err = "EINVAL"

\* what the code does instead: no call ever reports EINVAL
C12_NoCallReportsEinval ==
    \A c \in 1..Len(calls) : Returned(c) => res[c][1].err # "EINVAL"

\* ------------------------------- error codes through composites (C13)
MaxCompositeCalls == 2

P_dg == <<"/", "d", "/", "g">>

\* /d with the file g in it, and /f whose record denies reading; /e is missing
CompositeInit ==
    /\ tree = (<<N_d>> :> DirNode) @@ (<<N_d, N_g>> :> FileNode(Text_y, 0))
                 @@ (<<N_f>> :> FileNode(Text_x, 0))
    /\ LET m == [q \in DOMAIN DefaultMap(tree) |->
                    IF q = P_f THEN [perms |-> {"w"}, uid |-> 0, gid |-> 0]
                    ELSE DefaultMap(tree)[q]]
       IN  /\ store = [state |-> "json", map |-> m]
           /\ perms = m
    /\ currPath = <<"/">>
    /\ cwd = <<"/">>
    /\ tasks = <<>>
    /\ frames = <<>>
    /\ nid = 1
    /\ now = 1
    /\ calls = <<>>
    /\ res = <<>>
    /\ WatchIdle
    /\ NormIdle

CompositePaths == {P_e, P_f, P_d, P_dg}

\* the client makes its next call when nothing is pending any more
CompositeReady == ClientReady(MaxCompositeCalls) /\ DOMAIN tasks = {}

CompositeLs ==
    /\ CompositeReady
    /\ \E p \in CompositePaths :
          /\ Record("ls", p, <<>>, 0)
          /\ Apply(CallLs(Begin, p, Here))
    /\ UNCHANGED normVars

CompositeCat ==
    /\ CompositeReady
    /\ \E p \in CompositePaths :
          /\ Record("cat", p, <<>>, 0)
          /\ Apply(CallCat(Begin, <<p>>, Here))
    /\ UNCHANGED normVars

CompositeRename ==
    /\ CompositeReady
    /\ \E p \in CompositePaths :
          /\ Record("rename", p, P_t, 0)
          /\ Apply(CallRename(Begin, p, P_t, Here))
    /\ UNCHANGED normVars

CompositeReaddir ==
    /\ CompositeReady
    /\ \E p \in CompositePaths :
          /\ Record("readdir", p, <<>>, 0)
          /\ Apply(CallReaddir(Begin, p, Here))
    /\ UNCHANGED normVars

CompositeReadFile ==
    /\ CompositeReady
    /\ \E p \in CompositePaths :
          /\ Record("readFile", p, <<>>, 0)
          /\ Apply(CallReadFile(Begin, p, Here))
    /\ UNCHANGED normVars

CompositeStat ==
    /\ CompositeReady
    /\ \E p \in CompositePaths :
          /\ Record("stat", p, <<>>, 0)
          /\ Apply(CallStat(Begin, p, Here))
    /\ UNCHANGED normVars

CompositeNext ==
    \/ CompositeLs \/ CompositeCat \/ CompositeRename
    \/ CompositeReaddir \/ CompositeReadFile \/ CompositeStat
    \/ CompleteStat \/ CompleteReadFile \/ CompleteWriteOpen \/ CompleteWriteClose
    \/ CompleteMkdir \/ CompleteReaddir \/ CompleteUnlink \/ CompleteRmdir
    \/ CompleteUpdRead \/ CompleteUpdWrite

SpecComposite == CompositeInit /\ [][CompositeNext]_vars

\* the primitive each composite starts with on the path it is given
FirstPrimitive == [ls |-> "readdir", cat |-> "readFile", rename |-> "stat"]

\* call i is a composite and call j its first primitive, made on the same path
\* in the same backend state with the same records, and the primitive failed
SamePrimitiveFailed(i, j) ==
    /\ Returned(i) /\ Returned(j)
    /\ calls[i].op \in DOMAIN FirstPrimitive
    /\ calls[j].op = FirstPrimitive[calls[i].op]
    /\ calls[i].a = calls[j].a
    /\ calls[i].pre = calls[j].pre /\ calls[i].prePerms = calls[j].prePerms
    /\ res[j][1].err # NoErr

\* C13: when a primitive FS operation fails with code C inside a composite or
\* shell operation (here rename, cat and ls), the error the caller of the
\* composite gets carries the same code C, never UNKNOWN in its place.
C13_CompositeKeepsCode ==
    \A i, j \in 1..Len(calls) :
       SamePrimitiveFailed(i, j) => res[i][1].err = res[j][1].err

\* what the code does instead: the code of the failed primitive is replaced
\* by UNKNOWN
C13_CompositeReportsUnknown ==
    \A i, j \in 1..Len(calls) :
       SamePrimitiveFailed(i, j) => res[i][1].err = "UNKNOWN"

\* ------------------------------------ copyFile of an unreadable source (C14)
MaxCopyFileCalls == 2

\* the backend of CompositeInit: /e is missing, the record of /f denies
\* reading, /d/g can be read; /t is missing
CopyFileCopy ==
    /\ ClientReady(MaxCopyFileCalls)
    /\ \E src \in {P_e, P_f, P_dg}, dst \in {P_t, P_dg} :
          /\ Record("copyFile", src, dst, 0)
          /\ Apply(CallCopyFile(Begin, src, dst, Here))
    /\ UNCHANGED normVars

CopyFileNext ==
    \/ CopyFileCopy
    \/ CompleteReadFile \/ CompleteWriteOpen \/ CompleteWriteClose
    \/ CompleteUpdRead \/ CompleteUpdWrite

SpecCopyFile == CompositeInit /\ [][CopyFileNext]_vars

\* call c is a copyFile whose source cannot be read: it is missing, or its
\* record denies reading
CopiesUnreadable(c) ==
    /\ calls[c].op = "copyFile"
    /\ Returned(c)
    /\ \/ calls[c].a \notin {PathOf(np) : np \in DOMAIN calls[c].pre}
       \/ Denied(calls[c].prePerms, calls[c].a, {"r", "a"})

\* the entry at path n is the same in the trees t and u: there or not, and with
\* the same content
SameEntry(t, u, n) ==
    /\ (Parts(n) \in DOMAIN t) = (Parts(n) \in DOMAIN u)
    /\ ContentAt(t, n) = ContentAt(u, n)

\* C14: copyFile(src, dst) whose read of src fails (src is missing, or its
\* record denies reading) reports that error and neither creates nor modifies
\* dst.
C14_FailedReadLeavesDestination ==
    \A c \in 1..Len(calls) :
       CopiesUnreadable(c) =>
          /\ res[c][1].err # NoErr
          /\ SameEntry(calls[c].pre, res[c][1].post, calls[c].b)

\* what the code does instead: the read error is dropped, dst is written with
\* no content and the call reports success
C14_FailedReadWritesEmptyDestination ==
    \A c \in 1..Len(calls) :
       CopiesUnreadable(c) =>
          /\ res[c][1].err = NoErr
          /\ IsFileAt(res[c][1].post, Parts(calls[c].b))
          /\ ContentAt(res[c][1].post, calls[c].b) = <<>>

\* ----------------------------------- callback and promise forms (C15)
MaxFormCalls == 2

\* the promise of call c: the callback that settles it
Promised == [t |-> "promise", c |-> Len(calls) + 1]
PromisedResolve == [t |-> "promiseResolve", c |-> Len(calls) + 1]

FormPaths == {P_e, P_f, P_dg}
FormReady == ClientReady(MaxFormCalls) /\ DOMAIN tasks = {}

FormReadFile ==
    /\ FormReady
    /\ \E p \in FormPaths, promise \in BOOLEAN :
          /\ Record("readFile", p, <<>>, promise)
          /\ Apply(CallReadFile(Begin, p, IF promise THEN Promised ELSE Here))
    /\ UNCHANGED normVars

FormUnlink ==
    /\ FormReady
    /\ \E p \in FormPaths, promise \in BOOLEAN :
          /\ Record("unlink", p, <<>>, promise)
          /\ Apply(CallUnlink(Begin, p, IF promise THEN Promised ELSE Here))
    /\ UNCHANGED normVars

FormCat ==
    /\ FormReady
    /\ \E p \in FormPaths, promise \in BOOLEAN :
          /\ Record("cat", p, <<>>, promise)
          /\ Apply(CallCat(Begin, <<p>>, IF promise THEN Promised ELSE Here))
    /\ UNCHANGED normVars

FormExists ==
    /\ FormReady
    /\ \E p \in FormPaths, promise \in BOOLEAN :
          /\ Record("exists", p, <<>>, promise)
          /\ Apply(CallExists(Begin, p, IF promise THEN PromisedResolve ELSE Here))
    /\ UNCHANGED normVars

\* the modes F_OK, R_OK and W_OK
FormAccess ==
    /\ FormReady
    /\ \E p \in FormPaths, mode \in {0, 4, 2}, promise \in BOOLEAN :
          /\ Record("access", p, mode, promise)
          /\ Apply(CallAccess(Begin, p, mode, IF promise THEN PromisedResolve ELSE Here))
    /\ UNCHANGED normVars

FormNext ==
    \/ FormReadFile \/ FormUnlink \/ FormCat \/ FormExists \/ FormAccess
    \/ CompleteReadFile \/ CompleteUnlink \/ CompleteStat

SpecForm == CompositeInit /\ [][FormNext]_vars

\* call i is the callback form and call j the promise form of the same
\* operation with the same arguments, made in the same state of the backend
\* and of the records
TwoForms(i, j) ==
    /\ Returned(i) /\ Returned(j)
    /\ calls[i].op = calls[j].op /\ calls[i].a = calls[j].a /\ calls[i].b = calls[j].b
    /\ calls[i].x = FALSE /\ calls[j].x = TRUE
    /\ calls[i].pre = calls[j].pre /\ calls[i].prePerms = calls[j].prePerms

\* C15: for every operation with a callback form and a promises form, the
\* promise rejects exactly when the callback form passes an error, with the
\* same error, and resolves otherwise.
C15_PromiseMirrorsCallback ==
    \A i, j \in 1..Len(calls) :
       TwoForms(i, j) => res[j][1].err = res[i][1].err

\* the part of C15 the code keeps: every operation but access
C15_PromiseMirrorsCallbackButAccess ==
    \A i, j \in 1..Len(calls) :
       (TwoForms(i, j) /\ calls[i].op # "access") => res[j][1].err = res[i][1].err

\* what promises.access does instead: it resolves, with the error as its value
C15_AccessPromiseResolves ==
    \A j \in 1..Len(calls) :
       (Returned(j) /\ calls[j].op = "access" /\ calls[j].x = TRUE) => res[j][1].err = NoErr

\* ------------------------------------------------------ appendFile (C16)
MaxAppendCalls == 2

\* the backend of CompositeInit: /e is missing, /d/g holds "yy"
AppendAppend ==
    /\ ClientReady(MaxAppendCalls)
    /\ \E p \in {P_e, P_dg, P_f}, d \in {Text_x, Text_y} :
          /\ Record("appendFile", p, d, 0)
          /\ Apply(CallAppendFile(Begin, p, d, Here))
    /\ UNCHANGED normVars

AppendNext ==
    \/ AppendAppend
    \/ CompleteReadFile \/ CompleteWriteOpen \/ CompleteWriteClose
    \/ CompleteUpdRead \/ CompleteUpdWrite

SpecAppend == CompositeInit /\ [][AppendNext]_vars

\* call c is an appendFile on a path with no entry in the backend
AppendsToMissing(c) ==
    /\ calls[c].op = "appendFile"
    /\ Returned(c)
    /\ Parts(calls[c].a) \notin DOMAIN calls[c].pre

\* C16: appendFile(p, data) on a path p that does not exist creates p with the
\* content data and reports success.
C16_AppendCreatesMissingFile ==
    \A c \in 1..Len(calls) :
       AppendsToMissing(c) =>
          /\ res[c][1].err = NoErr
          /\ IsFileAt(res[c][1].post, Parts(calls[c].a))
          /\ ContentAt(res[c][1].post, calls[c].a) = calls[c].b

\* what the code does instead: ENOENT, and nothing is created
C16_AppendToMissingFileFails ==
    \A c \in 1..Len(calls) :
       AppendsToMissing(c) =>
          /\ res[c][1].err = "ENOENT"
          /\ Parts(calls[c].a) \notin DOMAIN tree

\* on a file that is there and may be read and written the data is appended
C16_AppendExtendsFile ==
    \A c \in 1..Len(calls) :
       (calls[c].op = "appendFile" /\ Returned(c) /\ calls[c].a = P_dg) =>
          /\ res[c][1].err = NoErr
          /\ ContentAt(res[c][1].post, P_dg) = ContentAt(calls[c].pre, P_dg) \o calls[c].b

\* ------------------------------------ access on a removed path (C17)
MaxAccessCalls == 3

\* the backend of CompositeInit: /e is missing and has no record, /d/g is a
\* file with the default record, the record of /f has the letter w only
AccessUnlink ==
    /\ ClientReady(MaxAccessCalls)
    /\ \E p \in {P_dg, P_f} :
          /\ Record("unlink", p, <<>>, 0)
          /\ Apply(CallUnlink(Begin, p, Here))
    /\ UNCHANGED normVars

\* the modes F_OK, R_OK, W_OK, X_OK and R_OK | W_OK
AccessAccess ==
    /\ ClientReady(MaxAccessCalls)
    /\ \E p \in {P_e, P_dg, P_f}, mode \in {0, 4, 2, 1, 6} :
          /\ Record("access", p, <<>>, mode)
          /\ Apply(CallAccess(Begin, p, mode, Here))
    /\ UNCHANGED normVars

AccessNext ==
    \/ AccessUnlink \/ AccessAccess
    \/ CompleteUnlink \/ CompleteStat

SpecAccess == CompositeInit /\ [][AccessNext]_vars

\* call c is an access on a path with no entry in the backend
AccessesMissing(c) ==
    /\ calls[c].op = "access"
    /\ Returned(c)
    /\ Parts(calls[c].a) \notin DOMAIN calls[c].pre

\* C17: access(p, mode) reports an error whenever p does not exist in the
\* backend, for every mode, also when a record for p is still there from
\* before p was removed.
C17_AccessOfMissingPathFails ==
    \A c \in 1..Len(calls) : AccessesMissing(c) => res[c][1].err # NoErr

\* the part of C17 the code keeps: a missing path that has no record
C17_AccessWithoutRecordFails ==
    \A c \in 1..Len(calls) :
       (AccessesMissing(c) /\ calls[c].a \notin DOMAIN calls[c].prePerms) =>
          res[c][1].err = "ENOENT"

\* with a record the backend is not looked at: the answer is the record's
C17_AccessWithRecordIgnoresBackend ==
    \A c \in 1..Len(calls) :
       (AccessesMissing(c) /\ calls[c].a \in DOMAIN calls[c].prePerms) =>
          (res[c][1].err = NoErr) = AccessAllowed(calls[c].prePerms[calls[c].a], calls[c].x)

\* ------------------------------------- the store's own record (C18)
MaxStoreCalls == 3

\* a backend that has no store entry, before new FS(handle)
StoreInit ==
    /\ tree \in {<<>>, (<<N_f>> :> FileNode(Text_x, 0))}
    /\ store = [state |-> "absent", map |-> <<>>]
    /\ perms = <<>>
    /\ currPath = <<"/">>
    /\ cwd = <<"/">>
    /\ tasks = <<>>
    /\ frames = <<>>
    /\ nid = 1
    /\ now = 1
    /\ calls = <<>>
    /\ res = <<>>
    /\ WatchIdle
    /\ NormIdle

StoreNew ==
    /\ calls = <<>>
    /\ Record("new FS", <<>>, <<>>, 0)
    /\ Apply(CallConstructor(Begin, Here))
    /\ UNCHANGED normVars

\* the client waits for the initialization, and for each call, to be over
StoreReady == calls # <<>> /\ ClientReady(MaxStoreCalls) /\ DOMAIN tasks = {}

StoreWrite ==
    /\ StoreReady
    /\ \E p \in {StorePath, P_f} :
          /\ Record("writeFile", p, Text_x, 0)
          /\ Apply(CallWriteFile(Begin, p, Data(Text_x), "utf8", Here))
    /\ UNCHANGED normVars

StoreUnlink ==
    /\ StoreReady
    /\ \E p \in {StorePath, P_f} :
          /\ Record("unlink", p, <<>>, 0)
          /\ Apply(CallUnlink(Begin, p, Here))
    /\ UNCHANGED normVars

\* chmod of the store to 0o444, which leaves it read-only
StoreChmod ==
    /\ StoreReady
    /\ Record("chmod", StorePath, <<>>, 292)
    /\ Apply(CallChmod(Begin, StorePath, 292, Here))
    /\ UNCHANGED normVars

StoreNext ==
    \/ StoreNew \/ StoreWrite \/ StoreUnlink \/ StoreChmod
    \/ CompleteCtorExists \/ CompleteCtorCreate \/ CompleteCtorClose \/ CompleteCtorRead
    \/ CompleteWriteOpen \/ CompleteWriteClose \/ CompleteUnlink
    \/ CompleteUpdRead \/ CompleteUpdWrite

SpecStore == StoreInit /\ [][StoreNext]_vars

\* the initialization is over and the client has called nothing yet: the store
\* is there and holds its own record
BootstrapWritten ==
    (Len(calls) = 1 /\ Returned(1)) =>
       /\ store.state = "json"
       /\ StorePath \in DOMAIN store.map
       /\ store.map[StorePath] = BootstrapRecord

\* call c is a writeFile or an unlink on the store made after the initialization
TouchesStore(c) ==
    /\ c > 1
    /\ Returned(c)
    /\ calls[c].op \in {"writeFile", "unlink"}
    /\ calls[c].a = StorePath

\* C18: once the constructor's initialization is over on a backend without a
\* store entry, the store exists and holds "/.TFS_STORE" -> {perms: ["r"],
\* uid: 0, gid: 0}, and from then on every writeFile and unlink on /.TFS_STORE
\* is refused with EACCES.
C18_StoreProtectsItself ==
    /\ BootstrapWritten
    /\ \A c \in 1..Len(calls) : TouchesStore(c) => res[c][1].err = "EACCES"

\* the part of C18 the code keeps: as long as no chmod was made on the store
C18_StoreProtectedUntilChmod ==
    /\ BootstrapWritten
    /\ \A c \in 1..Len(calls) :
          (TouchesStore(c) /\ \A b \in 1..(c - 1) : calls[b].op # "chmod") =>
             /\ res[c][1].err = "EACCES"
             /\ res[c][1].post = calls[c].pre
             /\ store.state = "json"

\* ------------------------------------------------ chown, then stat (C19)
MaxChownCalls == 3

\* the owners a client hands to chown
Owners == {0, 1000}

ChownReady == ClientReady(MaxChownCalls) /\ DOMAIN tasks = {}

ChownChown ==
    /\ ChownReady
    /\ \E p \in CompositePaths, uid \in Owners, gid \in Owners :
          /\ Record("chown", p, <<uid, gid>>, 0)
          /\ Apply(CallChown(Begin, p, uid, gid, Here))
    /\ UNCHANGED normVars

ChownStat ==
    /\ ChownReady
    /\ \E p \in CompositePaths :
          /\ Record("stat", p, <<>>, 0)
          /\ Apply(CallStat(Begin, p, Here))
    /\ UNCHANGED normVars

ChownNext ==
    \/ ChownChown \/ ChownStat
    \/ CompleteStat \/ CompleteUpdRead \/ CompleteUpdWrite

SpecChown == CompositeInit /\ [][ChownNext]_vars

\* call j is a stat that succeeded on the path of the successful chown i, no
\* other chown of that path between them
StatAfterChown(i, j) ==
    /\ i < j
    /\ Returned(i) /\ Returned(j)
    /\ calls[i].op = "chown" /\ res[i][1].err = NoErr
    /\ calls[j].op = "stat" /\ res[j][1].err = NoErr
    /\ calls[j].a = calls[i].a
    /\ \A b \in (i + 1)..(j - 1) : ~(calls[b].op = "chown" /\ calls[b].a = calls[i].a)

\* C19: after chown(p, uid, gid) reported success, stat(p) returns a record
\* with that uid and that gid.
C19_StatShowsOwner ==
    \A i, j \in 1..Len(calls) :
       StatAfterChown(i, j) =>
          /\ res[j][1].val.uid = calls[i].b[1]
          /\ res[j][1].val.gid = calls[i].b[2]

\* what the code does instead: the owner goes to the store only, and every
\* stat that succeeds reports uid 0 and gid 0
C19_StatShowsRoot ==
    /\ \A j \in 1..Len(calls) :
          (Returned(j) /\ calls[j].op = "stat" /\ res[j][1].err = NoErr) =>
             res[j][1].val.uid = 0 /\ res[j][1].val.gid = 0
    /\ \A i \in 1..Len(calls) :
          (Returned(i) /\ calls[i].op = "chown" /\ res[i][1].err = NoErr
             /\ i = Len(calls) /\ DOMAIN tasks = {}) =>
             /\ store.map[calls[i].a].uid = calls[i].b[1]
             /\ store.map[calls[i].a].gid = calls[i].b[2]

\* ------------------------------------- promises.cd, then pwd (C20)
MaxCdCalls == 3

\* the paths handed to cd: the directory d, its parent, the missing e, the file d/g
CdPaths == {<<"d">>, <<".", ".">>, <<"e">>, <<"d", "/", "g">>}

\* await shell.promises.cd(p), then pwd(): the call is recorded with the
\* working directory it was made in, its result is what pwd() returned
CdCd ==
    /\ ClientReady(MaxCdCalls)
    /\ \E p \in CdPaths :
          /\ Record("promises.cd", p, cwd, 0)
          /\ Apply(CallPromisesCd(Begin, p, [t |-> "thenPwd", k |-> Here]))
    /\ UNCHANGED normVars

CdNext == CdCd \/ CompleteStat

SpecCd == CompositeInit /\ [][CdNext]_vars

\* the directory call c asks for
CdTarget(c) == PathJoin(calls[c].b, calls[c].a)

\* call c is a promises.cd that resolved, made for an existing directory
CdOfDirectory(c) ==
    /\ Returned(c)
    /\ calls[c].op = "promises.cd"
    /\ res[c][1].err = NoErr
    /\ IsDirAt(calls[c].pre, Parts(CdTarget(c)))

\* C20: when the promise of Shell.promises.cd(p) resolves for an existing
\* directory p, a pwd() made right after the resolution returns the new
\* directory.
C20_PwdAfterCdIsNewDirectory ==
    \A c \in 1..Len(calls) : CdOfDirectory(c) => res[c][1].val = CdTarget(c)

\* what the code does instead: the pwd() right after the resolution returns the
\* directory the call was made in, unless the new directory is the root, whose
\* stat calls back at once; the directory is changed when the stat of a cd
\* made with no other one pending is over
C20_PwdAfterCdIsOldDirectory ==
    /\ \A c \in 1..Len(calls) :
          CdOfDirectory(c) =>
             res[c][1].val = IF CdTarget(c) = <<"/">> THEN <<"/">> ELSE calls[c].b
    /\ (calls # <<>> /\ CdOfDirectory(Len(calls)) /\ calls[Len(calls)].quiet
          /\ DOMAIN tasks = {}) =>
          cwd = CdTarget(Len(calls))

\* ------------------------------------- cat calls back once (C21)
MaxCatCalls == 2

\* the arrays of one or two paths handed to cat
CatPaths == {<<p>> : p \in CompositePaths} \cup {<<p, q>> : p, q \in CompositePaths}

CatCat ==
    /\ ClientReady(MaxCatCalls)
    /\ DOMAIN tasks = {}
    /\ \E ps \in CatPaths :
          /\ Record("cat", ps, <<>>, 0)
          /\ Apply(CallCat(Begin, ps, Here))
    /\ UNCHANGED normVars

CatNext == CatCat \/ CompleteReadFile

SpecCat == CompositeInit /\ [][CatNext]_vars

\* readFile of path p fails in the state call c was made in: the record denies
\* reading, or there is no file at p
ReadFails(c, p) ==
    \/ Denied(calls[c].prePerms, p, {"r", "a"})
    \/ ~IsFileAt(calls[c].pre, Parts(p))

\* the paths of call c whose read fails
FailedReads(c) == {i \in 1..Len(calls[c].a) : ReadFails(c, calls[c].a[i])}

\* call c is a cat all of whose reads are over
CatOver(c) ==
    /\ calls[c].op = "cat"
    /\ c < Len(calls) \/ DOMAIN tasks = {}

\* C21: Shell.cat over one or more paths invokes its callback exactly once per
\* call; if reading any of the paths fails, that one invocation carries the
\* error and no success result is delivered for the call.
C21_CatCallsBackOnce ==
    \A c \in 1..Len(calls) :
       calls[c].op = "cat" =>
          /\ Len(res[c]) <= 1
          /\ CatOver(c) => Len(res[c]) = 1
          /\ (CatOver(c) /\ FailedReads(c) # {}) => res[c][1].err # NoErr

\* what the code does instead: one invocation with the error for each read that
\* fails, and after the last read one more with null and the contents joined
C21_CatCallsBackPerFailure ==
    \A c \in 1..Len(calls) :
       CatOver(c) =>
          /\ Len(res[c]) = Cardinality(FailedReads(c)) + 1
          /\ res[c][Len(res[c])].err = NoErr
          /\ \A i \in 1..(Len(res[c]) - 1) : res[c][i].err # NoErr
          /\ FailedReads(c) = {} => res[c][1].val = JoinResults([i \in 1..Len(calls[c].a) |->
                                                     calls[c].pre[Parts(calls[c].a[i])].data])

\* ------------------------------------- rename of a file (C22)
MaxRenameFileCalls == 2

P_dh == <<"/", "d", "/", "h">>

\* rename, or promises.rename, of the file /d/g or of the missing /e
RenameFileRename ==
    /\ ClientReady(MaxRenameFileCalls)
    /\ DOMAIN tasks = {}
    /\ \E old \in {P_dg, P_e}, new \in {P_t, P_dh}, promise \in BOOLEAN :
          /\ Record("rename", old, new, promise)
          /\ Apply(CallRename(Begin, old, new, IF promise THEN Promised ELSE Here))
    /\ UNCHANGED normVars

RenameFileNext ==
    \/ RenameFileRename
    \/ CompleteStat \/ CompleteReadFile \/ CompleteWriteOpen \/ CompleteWriteClose
    \/ CompleteUnlink \/ CompleteUpdRead \/ CompleteUpdWrite

SpecRenameFile == CompositeInit /\ [][RenameFileNext]_vars

\* call c is a rename of a regular file that reported success
FileRenamed(c) ==
    /\ Returned(c)
    /\ calls[c].op = "rename"
    /\ IsFileAt(calls[c].pre, Parts(calls[c].a))
    /\ res[c][1].err = NoErr

\* C22: when rename(old, new) of a regular file reports success, the deletion
\* of old has already completed: old no longer exists and new holds the content
\* old had.
C22_RenameReportsAfterDelete ==
    \A c \in 1..Len(calls) :
       FileRenamed(c) =>
          /\ Parts(calls[c].a) \notin DOMAIN res[c][1].post
          /\ ContentAt(res[c][1].post, calls[c].b) = ContentAt(calls[c].pre, calls[c].a)

\* what the code does instead: at the report new holds the content and old is
\* still there, its unlink not yet started; old is gone when nothing is pending
C22_RenameReportsBeforeDelete ==
    \A c \in 1..Len(calls) :
       FileRenamed(c) =>
          /\ IsFileAt(res[c][1].post, Parts(calls[c].a))
          /\ ContentAt(res[c][1].post, calls[c].b) = ContentAt(calls[c].pre, calls[c].a)
          /\ (c = Len(calls) /\ DOMAIN tasks = {}) =>
                /\ Parts(calls[c].a) \notin DOMAIN tree
                /\ ContentAt(tree, calls[c].b) = ContentAt(calls[c].pre, calls[c].a)

\* ------------------------------------- the store and this.perms (C23)
MaxSyncCalls == 2

\* the client makes a call whether or not the one before is over; the call is
\* recorded with whether anything was in flight when it was made
SyncReady == Len(calls) < MaxSyncCalls

SyncWrite ==
    /\ SyncReady
    /\ \E p \in {P_e, P_t} :
          /\ Record("writeFile", p, Text_x, DOMAIN tasks = {})
          /\ Apply(CallWriteFile(Begin, p, Data(Text_x), "utf8", Here))
    /\ UNCHANGED normVars

SyncMkdir ==
    /\ SyncReady
    /\ Record("mkdir", P_t, <<>>, DOMAIN tasks = {})
    /\ Apply(CallMkdir(Begin, P_t, TRUE, Here))
    /\ UNCHANGED normVars

\* chmod to 0o444 and to 0o10, which is S_IXGRP and O_APPEND
SyncChmod ==
    /\ SyncReady
    /\ \E mode \in {292, 8} :
          /\ Record("chmod", P_dg, <<mode>>, DOMAIN tasks = {})
          /\ Apply(CallChmod(Begin, P_dg, mode, Here))
    /\ UNCHANGED normVars

SyncChown ==
    /\ SyncReady
    /\ Record("chown", P_dg, <<1000, 1000>>, DOMAIN tasks = {})
    /\ Apply(CallChown(Begin, P_dg, 1000, 1000, Here))
    /\ UNCHANGED normVars

SyncSetxxr ==
    /\ SyncReady
    /\ \E p \in {P_f, P_e} :
          /\ Record("setxxr", p, <<>>, DOMAIN tasks = {})
          /\ Apply(CallSetxxr(Begin, p, Here))
    /\ UNCHANGED normVars

SyncNext ==
    \/ SyncWrite \/ SyncMkdir \/ SyncChmod \/ SyncChown \/ SyncSetxxr
    \/ CompleteWriteOpen \/ CompleteWriteClose \/ CompleteMkdir
    \/ CompleteUpdRead \/ CompleteUpdWrite

SpecSync == CompositeInit /\ [][SyncNext]_vars

\* the store holds the mapping this.perms
StoreIsPerms == store.state = "json" /\ store.map = perms

\* C23: whenever no operation is in flight, the content of /.TFS_STORE equals
\* the in-memory permission mapping (same keys and, for each key, the same
\* perms, uid and gid), after any sequence of possibly concurrent writeFile,
\* mkdir, chmod, chown and setxxr calls.
C23_StoreEqualsPermsAtRest ==
    DOMAIN tasks = {} => StoreIsPerms

\* the part the code keeps: after writeFile and mkdir calls each made with
\* nothing in flight, the store equals this.perms when nothing is in flight
C23_StoreEqualsPermsAfterSequentialWrites ==
    (/\ DOMAIN tasks = {}
     /\ \A c \in 1..Len(calls) : calls[c].op \in {"writeFile", "mkdir"} /\ calls[c].x) =>
       StoreIsPerms

\* ------------------------------------- appendFile calls that overlap (C24)
MaxRaceCalls == 2

\* appendFile on /d/g, made whether or not the call before is over; the call is
\* recorded with whether anything was in flight when it was made
RaceAppend ==
    /\ Len(calls) < MaxRaceCalls
    /\ \E d \in {Text_x, Text_y} :
          /\ Record("appendFile", P_dg, d, DOMAIN tasks = {})
          /\ Apply(CallAppendFile(Begin, P_dg, d, Here))
    /\ UNCHANGED normVars

RaceNext ==
    \/ RaceAppend
    \/ CompleteReadFile \/ CompleteWriteOpen \/ CompleteWriteClose
    \/ CompleteUpdRead \/ CompleteUpdWrite

SpecRace == CompositeInit /\ [][RaceNext]_vars

\* every call made has reported success and nothing is in flight
AppendsOver ==
    /\ calls # <<>>
    /\ DOMAIN tasks = {}
    /\ \A c \in 1..Len(calls) : Returned(c) /\ res[c][1].err = NoErr

\* the text d is a piece of the text s
Occurs(d, s) == \E i \in 1..(Len(s) - Len(d) + 1) : SubSeq(s, i, i + Len(d) - 1) = d

\* the chunks of the calls from c on, one after the other
RECURSIVE ChunksFrom(_)
ChunksFrom(c) == IF c > Len(calls) THEN <<>> ELSE calls[c].b \o ChunksFrom(c + 1)

\* C24: after any number of appendFile calls on the same file have all
\* reported success, including calls issued without awaiting one another, the
\* content holds every appended chunk: no append is lost.
C24_NoAppendLost ==
    AppendsOver =>
       /\ \A c \in 1..Len(calls) : Occurs(calls[c].b, ContentAt(tree, P_dg))
       /\ Len(ContentAt(tree, P_dg)) = Len(ContentAt(calls[1].pre, P_dg)) + Len(ChunksFrom(1))

\* the part the code keeps: appends each made with nothing in flight end with
\* the old content followed by the chunks in the order of the calls
C24_NoAppendLostWhenAwaited ==
    (AppendsOver /\ \A c \in 1..Len(calls) : calls[c].x) =>
       ContentAt(tree, P_dg) = ContentAt(calls[1].pre, P_dg) \o ChunksFrom(1)

\* ------------------------------------- rename of a directory (C25)
\* /s before the rename: empty, or with the file f
RenameDirSources ==
    { (<<N_s>> :> DirNode),
      (<<N_s>> :> DirNode) @@ (<<N_s, N_f>> :> FileNode(Text_x, 0)) }

RenameDirInit ==
    /\ tree \in RenameDirSources
    /\ store = [state |-> "json", map |-> DefaultMap(tree)]
    /\ perms = DefaultMap(tree)
    /\ currPath = <<"/">>
    /\ cwd = <<"/">>
    /\ tasks = <<>>
    /\ frames = <<>>
    /\ nid = 1
    /\ now = 1
    /\ calls = <<>>
    /\ res = <<>>
    /\ WatchIdle
    /\ NormIdle

\* the one call: rename("/s", "/t")
RenameDirRename ==
    /\ calls = <<>>
    /\ Record("rename", P_s, P_t, 0)
    /\ Apply(CallRename(Begin, P_s, P_t, Here))
    /\ UNCHANGED normVars

RenameDirNext ==
    \/ RenameDirRename
    \/ CompleteStat \/ CompleteMkdir \/ CompleteReaddir \/ CompleteReadFile
    \/ CompleteWriteOpen \/ CompleteWriteClose \/ CompleteUnlink \/ CompleteRmdir
    \/ CompleteUpdRead \/ CompleteUpdWrite

SpecRenameDir == RenameDirInit /\ [][RenameDirNext]_vars

\* the removal of the source has started and has not read the directory yet:
\* the readdir of the rm that rename runs after its child renames is pending
RemovalStarting ==
    \E id \in DOMAIN tasks :
       /\ tasks[id].op = "readdir"
       /\ tasks[id].k.t = "rmReaddir"
       /\ tasks[id].k.k.t = "renameRm"

\* the unlink a child rename makes for its source is still pending
ChildDeletePending ==
    \E id \in DOMAIN tasks : tasks[id].op = "unlink" /\ tasks[id].k.t = "none"

\* C25: in rename of a directory the removal of the source directory starts
\* only after every child rename has fully completed, the deletion of each
\* child's source included, so that the source directory is empty when its
\* removal starts, under every interleaving of the pending operations.
C25_RemovalStartsOnEmptySource ==
    RemovalStarting => ChildrenOf(tree, <<N_s>>) = {} /\ ~ChildDeletePending

\* what the code keeps: when the removal starts every child has been copied
\* to the destination with its content
C25_RemovalStartsAfterCopies ==
    RemovalStarting =>
       \A c \in ChildrenOf(calls[1].pre, <<N_s>>) :
          /\ IsFileAt(tree, <<N_t, Last(c)>>)
          /\ tree[<<N_t, Last(c)>>].data = calls[1].pre[c].data

\* ------------------------------------- cp of a directory calls back once (C26)
P_sg == <<"/", "s", "/", "g">>

\* /s holds the files f and g; at /t there is nothing, or a directory in which
\* f, or f and g, are directories, so that the copies of these children fail
CpRaceDestinations ==
    { <<>>,
      (<<N_t>> :> DirNode),
      (<<N_t>> :> DirNode) @@ (<<N_t, N_f>> :> DirNode),
      (<<N_t>> :> DirNode) @@ (<<N_t, N_f>> :> DirNode) @@ (<<N_t, N_g>> :> DirNode) }

CpRaceInit ==
    /\ tree \in { (<<N_s>> :> DirNode) @@ (<<N_s, N_f>> :> FileNode(Text_x, 0))
                     @@ (<<N_s, N_g>> :> FileNode(Text_y, 0)) @@ dst :
                  dst \in CpRaceDestinations }
    /\ store = [state |-> "json", map |-> DefaultMap(tree)]
    /\ perms = DefaultMap(tree)
    /\ currPath = <<"/">>
    /\ cwd = <<"/">>
    /\ tasks = <<>>
    /\ frames = <<>>
    /\ nid = 1
    /\ now = 1
    /\ calls = <<>>
    /\ res = <<>>
    /\ WatchIdle
    /\ NormIdle

\* the one call: cp("/s", "/t")
CpRaceCp ==
    /\ calls = <<>>
    /\ Record("cp", P_s, P_t, 0)
    /\ Apply(CallCp(Begin, P_s, P_t, Here))
    /\ UNCHANGED normVars

CpRaceNext ==
    \/ CpRaceCp
    \/ CompleteStat \/ CompleteMkdir \/ CompleteReaddir \/ CompleteReadFile
    \/ CompleteWriteOpen \/ CompleteWriteClose \/ CompleteUpdRead \/ CompleteUpdWrite

SpecCpRace == CpRaceInit /\ [][CpRaceNext]_vars

\* the children of /s whose copy fails: there is a directory at their destination
FailingChildren == {c \in ChildrenOf(calls[1].pre, <<N_s>>) : IsDirAt(calls[1].pre, <<N_t, Last(c)>>)}

N_l == <<"l">>
N_m == <<"m">>
N_h == <<"h">>

\* a link to the missing /e, as symlink writes it
DanglingLink == FileNode(SymlinkText(P_e, FileStr), 0)

\* /d before the search: empty, with the file g, with g and a dangling link,
\* with two dangling links, with g and the subdirectory h that holds a file
FindTrees ==
    { (<<N_d>> :> DirNode),
      (<<N_d>> :> DirNode) @@ (<<N_d, N_g>> :> FileNode(Text_y, 0)),
      (<<N_d>> :> DirNode) @@ (<<N_d, N_g>> :> FileNode(Text_y, 0))
          @@ (<<N_d, N_l>> :> DanglingLink),
      (<<N_d>> :> DirNode) @@ (<<N_d, N_l>> :> DanglingLink)
          @@ (<<N_d, N_m>> :> DanglingLink),
      (<<N_d>> :> DirNode) @@ (<<N_d, N_g>> :> FileNode(Text_y, 0))
          @@ (<<N_d, N_h>> :> DirNode) @@ (<<N_d, N_h, N_g>> :> FileNode(Text_x, 0)) }

FindInit ==
    /\ tree \in {t @@ (<<N_f>> :> FileNode(Text_x, 0)) : t \in FindTrees}
    /\ store = [state |-> "json", map |-> DefaultMap(tree)]
    /\ perms = DefaultMap(tree)
    /\ currPath = <<"/">>
    /\ cwd = <<"/">>
    /\ tasks = <<>>
    /\ frames = <<>>
    /\ nid = 1
    /\ now = 1
    /\ calls = <<>>
    /\ res = <<>>
    /\ WatchIdle
    /\ NormIdle

MaxFindCalls == 2

\* a call made at rest: find on the directory /d, the file /f or the missing
\* /e, for every name or for the name g
FindFind ==
    /\ Len(calls) < MaxFindCalls
    /\ DOMAIN tasks = {}
    /\ \E p \in {P_d, P_f, P_e}, name \in {<<"*">>, N_g} :
          /\ Record("find", p, name, 0)
          /\ Apply(CallFind(Begin, p, name, Here))
    /\ UNCHANGED normVars

FindNext == FindFind \/ CompleteReaddir \/ CompleteStat

SpecFind == FindInit /\ [][FindNext]_vars

\* C27: Shell.find invokes its callback exactly once per call, under every
\* completion order of its readdir and stat probes: on success only after
\* every directory read and every entry stat it started has settled, and after
\* a first error no further callback is made.
C27_FindCallsBackOnce ==
    \A c \in 1..Len(calls) :
       /\ Len(res[c]) <= 1
       /\ DOMAIN tasks = {} => Len(res[c]) = 1
       /\ (c = Len(calls) /\ Len(res[c]) = 1 /\ res[c][1].err = NoErr)
             => DOMAIN tasks = {}

\* the stats of two dangling links have both failed and one error was reported
C27_Witness ==
    /\ Len(calls) = 1
    /\ calls[1].a = P_d
    /\ IsFileAt(tree, <<N_d, N_l>>) /\ IsFileAt(tree, <<N_d, N_m>>)
    /\ DOMAIN tasks = {}
    /\ Len(res[1]) = 1
    /\ res[1][1].err # NoErr

\* ------------------------------------- rm removes the children first (C28)
MaxRmOrderCalls == 2

\* /x before the removal: empty, with two files, with a file and a subdirectory
\* that holds a file, with two such subdirectories, with a file and a dangling
\* link, with an empty subdirectory and a file
RmOrderTrees ==
    { (<<N_x>> :> DirNode),
      (<<N_x>> :> DirNode) @@ (<<N_x, N_f>> :> FileNode(Text_x, 0))
          @@ (<<N_x, N_g>> :> FileNode(Text_y, 0)),
      (<<N_x>> :> DirNode) @@ (<<N_x, N_f>> :> FileNode(Text_x, 0))
          @@ (<<N_x, N_y>> :> DirNode) @@ (<<N_x, N_y, N_f>> :> FileNode(Text_x, 0)),
      (<<N_x>> :> DirNode)
          @@ (<<N_x, N_y>> :> DirNode) @@ (<<N_x, N_y, N_f>> :> FileNode(Text_x, 0))
          @@ (<<N_x, N_z>> :> DirNode) @@ (<<N_x, N_z, N_f>> :> FileNode(Text_x, 0)),
      (<<N_x>> :> DirNode) @@ (<<N_x, N_f>> :> FileNode(Text_x, 0))
          @@ (<<N_x, N_l>> :> DanglingLink),
      (<<N_x>> :> DirNode) @@ (<<N_x, N_y>> :> DirNode)
          @@ (<<N_x, N_f>> :> FileNode(Text_x, 0)) }

RmOrderInit ==
    /\ tree \in RmOrderTrees
    /\ store = [state |-> "json", map |-> DefaultMap(tree)]
    /\ perms = DefaultMap(tree)
    /\ currPath = <<"/">>
    /\ cwd = <<"/">>
    /\ tasks = <<>>
    /\ frames = <<>>
    /\ nid = 1
    /\ now = 1
    /\ calls = <<>>
    /\ res = <<>>
    /\ WatchIdle
    /\ NormIdle

\* rm(p, {recursive: true}) on /x, made at rest
RmOrderRm ==
    /\ Len(calls) < MaxRmOrderCalls
    /\ DOMAIN tasks = {}
    /\ Record("rm", P_x, <<>>, 1)
    /\ Apply(CallRm(Begin, P_x, TRUE, Here))
    /\ UNCHANGED normVars

RmOrderNext ==
    \/ RmOrderRm
    \/ CompleteReaddir
    \/ CompleteStat
    \/ CompleteUnlink
    \/ CompleteRmdir

SpecRmOrder == RmOrderInit /\ [][RmOrderNext]_vars

\* this.fs.rmdir(p) of the rm under way has been issued and is pending
RmdirPending == \E id \in DOMAIN tasks : tasks[id].op = "rmdir" /\ tasks[id].n = P_x

\* the children of /x, as the call found them, whose removal fails: a
\* subdirectory that holds something, and a link whose target is missing
RmFailingChildren(j) ==
    {c \in ChildrenOf(calls[j].pre, <<N_x>>) :
        \/ calls[j].pre[c].kind = "dir" /\ ChildrenOf(calls[j].pre, c) # {}
        \/ calls[j].pre[c] = DanglingLink}

\* C28: in Shell.rm(p, {recursive: true}), rmdir(p) is issued only after the
\* removal of every child of p has completed successfully (while rmdir(p) is
\* pending nothing else is, no child of p is left and no callback was made);
\* if any child removal fails, rmdir(p) is never issued (p stays) and the
\* callback receives exactly one error.
C28_RmdirAfterChildren ==
    \A j \in 1..Len(calls) :
        (j = Len(calls) /\ IsDirAt(calls[j].pre, <<N_x>>)) =>
           /\ Len(res[j]) <= 1
           /\ RmdirPending =>
                 /\ Cardinality(DOMAIN tasks) = 1
                 /\ ChildrenOf(tree, <<N_x>>) = {}
                 /\ res[j] = <<>>
                 /\ RmFailingChildren(j) = {}
           /\ (Returned(j) /\ res[j][1].err # NoErr) =>
                 /\ ~RmdirPending
                 /\ IsDirAt(tree, <<N_x>>)
           /\ (RmFailingChildren(j) # {} /\ DOMAIN tasks = {}) =>
                 /\ Len(res[j]) = 1
                 /\ res[j][1].err # NoErr
                 /\ IsDirAt(tree, <<N_x>>)
           /\ (RmFailingChildren(j) = {} /\ DOMAIN tasks = {}) =>
                 /\ Len(res[j]) = 1
                 /\ res[j][1].err = NoErr
                 /\ ~IsDirAt(tree, <<N_x>>)

\* rmdir(/x) is pending after the two files of /x have been removed
C28_Witness ==
    /\ Len(calls) = 1
    /\ Cardinality(ChildrenOf(calls[1].pre, <<N_x>>)) = 2
    /\ RmFailingChildren(1) = {}
    /\ RmdirPending

\* the removals of two children of /x have failed and one error was reported
C28_WitnessFailure ==
    /\ Len(calls) = 1
    /\ Cardinality(RmFailingChildren(1)) = 2
    /\ DOMAIN tasks = {}
    /\ Len(res[1]) = 1
    /\ res[1][1].err # NoErr

\* ------------------------------------- what a poll emits (C29)
\* how many times the interval fires, how many calls the client makes
MaxPolls == 2
MaxPollCalls == 1

P_wg == <<"/", "w", "/", "g">>

\* a writeFile of the client is under way
Writing == \E id \in DOMAIN tasks : tasks[id].op \in {"writeOpen", "writeClose", "updRead", "updWrite"}

\* watch("/w", {recursive: true}, listener 1), a listener that never closes
PollWatch ==
    /\ watcher.state = "none"
    /\ Apply(CallWatch(Cur, P_w, TRUE, 0, P_wf))
    /\ UNCHANGED <<calls, normVars>>

\* the polls under way
Polling == {f \in DOMAIN frames : "done" \in DOMAIN frames[f] /\ ~frames[f].done}

\* the interval fires, also while one earlier poll is under way: scan()
PollTick ==
    /\ watcher.interval
    /\ watcher.ticks < MaxPolls
    /\ ~Writing
    /\ \A f, g \in Polling : f = g
    /\ Apply(CallScan([Cur EXCEPT !.watcher.ticks = @ + 1], P_wf))
    /\ UNCHANGED <<calls, normVars>>

\* the client writes /w/f or /w/g, between two polls
PollWrite ==
    /\ watcher.state = "open"
    /\ Len(calls) < MaxPollCalls
    /\ DOMAIN tasks = {}
    /\ \E p \in {P_wf, P_wg} :
          /\ Record("writeFile", p, Text_x, 0)
          /\ Apply(CallWriteFile(Begin, p, Data(Text_x), "utf8", Here))
    /\ UNCHANGED normVars

\* the client deletes /w/g, also while a poll is under way
PollUnlink ==
    /\ watcher.state = "open"
    /\ ClientReady(MaxPollCalls)
    /\ Record("unlink", P_wg, <<>>, 0)
    /\ Apply(CallUnlink(Begin, P_wg, Here))
    /\ UNCHANGED normVars

PollNext ==
    \/ PollWatch
    \/ PollTick
    \/ PollWrite
    \/ PollUnlink
    \/ CompleteStat
    \/ CompleteReaddir
    \/ CompleteWriteOpen
    \/ CompleteWriteClose
    \/ CompleteUpdRead
    \/ CompleteUpdWrite
    \/ CompleteUnlink

SpecPoll == WatchInit /\ [][PollNext]_vars

\* the paths a snapshot holds
SnapshotPaths(snap) == {snap[i][1] : i \in 1..Len(snap)}

\* the events the comparison of snap with prev determines
ExpectedEvents(snap, prev) ==
    {<<"rename", p>> : p \in (SnapshotPaths(snap) \ SnapshotPaths(prev))
                             \cup (SnapshotPaths(prev) \ SnapshotPaths(snap))}
    \cup {<<"change", p>> : p \in {q \in SnapshotPaths(snap) \cap SnapshotPaths(prev) :
                                      \/ SnapshotGet(snap, q).size # SnapshotGet(prev, q).size
                                      \/ SnapshotGet(snap, q).lastModified
                                            # SnapshotGet(prev, q).lastModified}}

\* the poll of frame f ends in this step
PollEnds(f) == "done" \in DOMAIN frames[f] /\ ~frames[f].done /\ frames'[f].done

\* the events listener 1 is given in this step
Delivered == SubSeq(events', Len(events) + 1, Len(events'))

PollStep ==
    /\ events' # events => \E f \in DOMAIN frames : PollEnds(f)
    /\ \A f \in DOMAIN frames :
          PollEnds(f) =>
             /\ {<<Delivered[i].event, Delivered[i].file>> : i \in 1..Len(Delivered)}
                   = ExpectedEvents(frames'[f].snapshot, watcher.prevSnapshot)
             /\ Len(Delivered) = Cardinality(ExpectedEvents(frames'[f].snapshot,
                                                            watcher.prevSnapshot))
             /\ watcher'.prevSnapshot = frames'[f].snapshot

\* C29: each watcher poll emits exactly the events determined by comparing its
\* new snapshot with the retained one: 'rename' for each path present in
\* exactly one of the two, 'change' for each path present in both whose size or
\* lastModified differs, and no event for a path present in both with equal
\* size and lastModified; the new snapshot then replaces the retained one.
C29_PollEmitsTheDifference == [][PollStep]_vars

\* a poll has found /w/g unchanged, and a later one has reported it changed or
\* gone
C29_Witness ==
    /\ watcher.ticks >= 1
    /\ \E i, j \in 1..Len(events) :
          /\ i < j
          /\ events[i].file = P_wg /\ events[i].event = "rename"
          /\ events[j].file = P_wg
    /\ \A f \in DOMAIN frames : "done" \in DOMAIN frames[f] => frames[f].done

\* ------------------------------------- the store is written first (C30)
\* C30: every permission mutation (by writeFile, mkdir, chmod, chown or setxxr)
\* completes its write of the mapping to /.TFS_STORE before the in-memory
\* mapping is updated, so the in-memory mapping never holds a record that the
\* store has not yet received.
C30_StoreReceivesFirst ==
    \A p \in DOMAIN perms :
        /\ store.state = "json"
        /\ p \in DOMAIN store.map
        /\ store.map[p] = perms[p]

\* what the code keeps is the opposite order: the in-memory mapping is updated
\* first, so every path the store has a record for has one in memory
C30_MemoryReceivesFirst ==
    store.state = "json" => DOMAIN store.map \subseteq DOMAIN perms

\* ------------------------------------- writes that share parents (C31)
MaxSharedCalls == 2

P_abx == <<"/", "a", "/", "b", "/", "x">>
P_aby == <<"/", "a", "/", "b", "/", "y">>
P_az == <<"/", "a", "/", "z">>

\* the state after construction on a backend that holds nothing, or only /a
SharedInit ==
    /\ tree \in {<<>>, (<<<<"a">>>> :> DirNode)}
    /\ store = [state |-> "json", map |-> (StorePath :> BootstrapRecord)]
    /\ perms = (StorePath :> BootstrapRecord)
    /\ currPath = <<"/">>
    /\ cwd = <<"/">>
    /\ tasks = <<>>
    /\ frames = <<>>
    /\ nid = 1
    /\ now = 1
    /\ calls = <<>>
    /\ res = <<>>
    /\ WatchIdle
    /\ NormIdle

\* writeFile to a file not written yet, whether or not the calls before are over
SharedWrite ==
    /\ Len(calls) < MaxSharedCalls
    /\ \E p \in {P_abx, P_aby, P_az} \ {calls[c].a : c \in 1..Len(calls)} :
          LET text == IF p = P_abx THEN Text_x ELSE Text_y
          IN  /\ Record("writeFile", p, text, 0)
              /\ Apply(CallWriteFileWalk(Begin, p, Data(text), "utf8", Here))
    /\ UNCHANGED normVars

SharedNext ==
    \/ SharedWrite
    \/ CompleteWriteWalk
    \/ CompleteWriteOpen
    \/ CompleteWriteClose
    \/ CompleteUpdRead
    \/ CompleteUpdWrite

SpecShared == SharedInit /\ [][SharedNext]_vars

\* C31: concurrent writeFile calls to different files that share missing parent
\* directories (for example /a/b/x and /a/b/y) all report success under every
\* interleaving of their backend calls, and afterwards the files exist with the
\* content written to them.
C31_SharedParentsBothSucceed ==
    \A c \in 1..Len(calls) :
       /\ Len(res[c]) <= 1
       /\ DOMAIN tasks = {} => Returned(c)
       /\ Returned(c) =>
             /\ res[c][1].err = NoErr
             /\ IsFileAt(tree, Parts(calls[c].a))
             /\ tree[Parts(calls[c].a)].data = calls[c].b

\* /a/b/x and /a/b/y were written while both walks were under way, on a
\* backend that had neither /a nor /a/b
C31_Witness ==
    /\ Len(calls) = 2
    /\ {calls[1].a, calls[2].a} = {P_abx, P_aby}
    /\ calls[1].pre = <<>>
    /\ calls[2].pre = <<>>
    /\ Returned(1) /\ Returned(2)
    /\ DOMAIN tasks = {}

\* ------------------------------------- calls during the initialization (C32)
MaxBootCalls == 3

\* a backend before new FS(handle): without a store entry, or with the store a
\* session before has left
BootInit ==
    /\ tree = <<>>
    /\ store \in {[state |-> "absent", map |-> <<>>],
                  [state |-> "json", map |-> (StorePath :> BootstrapRecord)]}
    /\ perms = <<>>
    /\ currPath = <<"/">>
    /\ cwd = <<"/">>
    /\ tasks = <<>>
    /\ frames = <<>>
    /\ nid = 1
    /\ now = 1
    /\ calls = <<>>
    /\ res = <<>>
    /\ WatchIdle
    /\ NormIdle

BootNew ==
    /\ calls = <<>>
    /\ Record("new FS", <<>>, <<>>, 0)
    /\ Apply(CallConstructor(Begin, Here))
    /\ UNCHANGED normVars

\* the client calls without waiting for the initialization or the call before
BootReady == calls # <<>> /\ Len(calls) < MaxBootCalls

\* noted with a call: 1 when nothing at all was pending when it was made
AtRest == IF DOMAIN tasks = {} THEN 1 ELSE 0

BootMkdir ==
    /\ BootReady
    /\ Record("mkdir", P_t, <<>>, AtRest)
    /\ Apply(CallMkdir(Begin, P_t, TRUE, Here))
    /\ UNCHANGED normVars

BootWrite ==
    /\ BootReady
    /\ Record("writeFile", P_e, Text_x, AtRest)
    /\ Apply(CallWriteFile(Begin, P_e, Data(Text_x), "utf8", Here))
    /\ UNCHANGED normVars

BootNext ==
    \/ BootNew \/ BootMkdir \/ BootWrite
    \/ CompleteCtorExists \/ CompleteCtorCreate \/ CompleteCtorClose \/ CompleteCtorRead
    \/ CompleteMkdir \/ CompleteWriteOpen \/ CompleteWriteClose
    \/ CompleteUpdRead \/ CompleteUpdWrite

SpecBoot == BootInit /\ [][BootNext]_vars

\* the store and this.perms hold the bootstrap record and a record for every
\* path a call has created
BootRecorded ==
    /\ store.state = "json"
    /\ \A m \in {store.map, perms} :
          /\ StorePath \in DOMAIN m
          /\ m[StorePath] = BootstrapRecord
          /\ \A c \in 2..Len(calls) :
                (Returned(c) /\ res[c][1].err = NoErr) => calls[c].a \in DOMAIN m

\* C32: under every interleaving of the constructor's initialization with
\* mkdir and writeFile calls issued right after construction, once everything
\* has settled both /.TFS_STORE and the in-memory mapping contain the
\* bootstrap record for /.TFS_STORE and a record for every path those calls
\* created.
C32_BootKeepsEveryRecord ==
    (calls # <<>> /\ DOMAIN tasks = {}) => BootRecorded

\* the part the code keeps: calls made one at a time, each with the
\* initialization and the call before it over
C32_BootKeepsRecordsOfAwaitedCalls ==
    (calls # <<>> /\ DOMAIN tasks = {} /\ \A c \in 2..Len(calls) : calls[c].x = 1)
        => BootRecorded

\* ------------------------------------- a write keeps the record (C33)
MaxRewriteCalls == 2

\* writeFile, made at rest, to /f (record {w}), /d/g (the default record) or
\* the missing /e
RewriteWrite ==
    /\ Len(calls) < MaxRewriteCalls
    /\ DOMAIN tasks = {}
    /\ \E p \in {P_f, P_dg, P_e}, text \in {Text_x, Text_y} :
          /\ Record("writeFile", p, text, 0)
          /\ Apply(CallWriteFile(Begin, p, Data(text), "utf8", Here))
    /\ UNCHANGED normVars

RewriteNext ==
    \/ RewriteWrite
    \/ CompleteWriteOpen
    \/ CompleteWriteClose
    \/ CompleteUpdRead
    \/ CompleteUpdWrite

SpecRewrite == CompositeInit /\ [][RewriteNext]_vars

\* call c, the last one, is a successful writeFile on a path that had a record,
\* and nothing is pending
Rewritten(c) ==
    /\ c = Len(calls)
    /\ DOMAIN tasks = {}
    /\ Returned(c)
    /\ res[c][1].err = NoErr
    /\ calls[c].a \in DOMAIN calls[c].prePerms

\* the record of the path call c wrote is, in memory and in the store, the one
\* it was before the call
RecordKept(c) ==
    /\ perms[calls[c].a] = calls[c].prePerms[calls[c].a]
    /\ store.state = "json"
    /\ calls[c].a \in DOMAIN store.map
    /\ store.map[calls[c].a] = calls[c].prePerms[calls[c].a]

\* C33: a successful writeFile(p) on a path that already has a permission
\* record leaves that record (perms, uid, gid) unchanged; the default record is
\* created only by the first write or mkdir of a path.
C33_WriteKeepsRecord ==
    \A c \in 1..Len(calls) : Rewritten(c) => RecordKept(c)

\* the part the code keeps: a record that is the default record stays
C33_WriteKeepsDefaultRecord ==
    \A c \in 1..Len(calls) :
        (Rewritten(c) /\ calls[c].prePerms[calls[c].a] = DefaultRecord) => RecordKept(c)

\* ------------------------------------- modes without a write bit (C34)
MaxModeCalls == 1

\* the permission bits of a mode: 0 .. 0o777
MaxMode == 511

\* S_IWUSR | S_IWGRP | S_IWOTH = 0o222
WriteBits == 146

\* chmod("/d/g", mode), made at rest
ModeChmod ==
    /\ Len(calls) < MaxModeCalls
    /\ DOMAIN tasks = {}
    /\ \E mode \in 0..MaxMode :
          /\ Record("chmod", P_dg, <<>>, mode)
          /\ Apply(CallChmod(Begin, P_dg, mode, Here))
    /\ UNCHANGED normVars

ModeNext == ModeChmod \/ CompleteUpdRead \/ CompleteUpdWrite

SpecMode == CompositeInit /\ [][ModeNext]_vars

\* the store has received the record of the chmod, call c
ModeStored(c) ==
    /\ calls[c].op = "chmod"
    /\ Returned(c)
    /\ res[c][1].err = NoErr
    /\ DOMAIN tasks = {}

\* C34: for every mode m in which no write bit is set (m & 0o222 = 0), the
\* record that chmod(p, m) writes to the store grants no write access: its
\* perms contain neither "w" nor "a".
C34_NoWriteBitNoWriteAccess ==
    \A c \in 1..Len(calls) :
        (ModeStored(c) /\ BitAnd(calls[c].x, WriteBits) = 0) =>
            store.map[calls[c].a].perms \cap {"w", "a"} = {}

\* the part the code keeps: modes in which S_IXGRP, the bit O_APPEND shares, is
\* not set either
C34_NoWriteBitNoGroupExec ==
    \A c \in 1..Len(calls) :
        (ModeStored(c) /\ BitAnd(calls[c].x, WriteBits) = 0 /\ BitAnd(calls[c].x, 8) = 0) =>
            store.map[calls[c].a].perms \cap {"w", "a"} = {}

\* ------------------------------------- what find returns (C35)
\* the entries at any depth below the directory call c searched whose name
\* matches the pattern of the call
MatchesBelow(c) ==
    LET top == Parts(PathJoin(<<"/">>, calls[c].a))
    IN  {PathOf(np) : np \in {q \in Subtree(calls[c].pre, top) \ {top} :
                                 Minimatch(Last(q), calls[c].b)}}

\* call c is a find that has reported success
Found(c) == calls[c].op = "find" /\ Returned(c) /\ res[c][1].err = NoErr

\* C35: on success, the list returned by Shell.find(p, {name}) contains exactly
\* the entries at any depth below p whose name matches the pattern: every
\* subdirectory is descended into, whether or not its own name matches.
C35_FindReturnsMatchesAtAnyDepth ==
    \A c \in 1..Len(calls) :
        Found(c) =>
            /\ {res[c][1].val[i] : i \in 1..Len(res[c][1].val)} = MatchesBelow(c)
            /\ Len(res[c][1].val) = Cardinality(MatchesBelow(c))

\* the part the code keeps: a directory whose entries hold nothing themselves
C35_FindReturnsMatchesOfFlatDirectory ==
    \A c \in 1..Len(calls) :
        LET top == Parts(PathJoin(<<"/">>, calls[c].a))
        IN  (Found(c) /\ \A q \in Subtree(calls[c].pre, top) : Len(q) <= Len(top) + 1) =>
                /\ {res[c][1].val[i] : i \in 1..Len(res[c][1].val)} = MatchesBelow(c)
                /\ Len(res[c][1].val) = Cardinality(MatchesBelow(c))

\* ------------------------------------- normalizePath with a base (C36)
MaxBaseCalls == 3

\* the paths normalized: relative, absolute, upwards, empty
BasePaths == {<<"g">>, <<"/", "g">>, <<".", ".", "/", "g">>, <<>>}

\* the bases given: none, /d, /d/h
BaseDirs == {<<>>, P_d, P_dh}

\* normalizePath(p) and normalizePath(p, dir)
BaseNormalize ==
    /\ Len(calls) < MaxBaseCalls
    /\ \E p \in BasePaths, dir \in BaseDirs :
          /\ Record("normalizePath", p, dir, 0)
          /\ Apply(CallNormalizePath(Begin, p, dir, Here))
    /\ UNCHANGED normVars

\* readdir("g"), which normalizes its path without a base
BaseReaddir ==
    /\ Len(calls) < MaxBaseCalls
    /\ DOMAIN tasks = {}
    /\ Record("readdir", <<"g">>, <<>>, 0)
    /\ Apply(CallReaddir(Begin, <<"g">>, Here))
    /\ UNCHANGED normVars

BaseNext == BaseNormalize \/ BaseReaddir \/ CompleteReaddir

\* /g and /d/g are directories, /g holding f
BaseInit ==
    /\ tree = (<<N_d>> :> DirNode) @@ (<<N_d, N_g>> :> DirNode)
                 @@ (<<N_g>> :> DirNode) @@ (<<N_g, N_f>> :> FileNode(Text_x, 0))
    /\ store = [state |-> "json", map |-> DefaultMap(tree)]
    /\ perms = DefaultMap(tree)
    /\ currPath = <<"/">>
    /\ cwd = <<"/">>
    /\ tasks = <<>>
    /\ frames = <<>>
    /\ nid = 1
    /\ now = 1
    /\ calls = <<>>
    /\ res = <<>>
    /\ WatchIdle
    /\ NormIdle

SpecBase == BaseInit /\ [][BaseNext]_vars

\* call c was made without a base
NoBase(c) == calls[c].b = <<>>

\* C36: a call normalizePath(q, dir) with an explicit base directory changes no
\* state of the FS object: every later normalizePath(p) made without a base
\* resolves a relative p against the same directory as before that call (the
\* directory "/" the constructor set), and so does every later readdir.
C36_BaseLeavesNoTrace ==
    \A c \in 1..Len(calls) :
        (NoBase(c) /\ Returned(c)) =>
            /\ calls[c].op = "normalizePath" => res[c][1].val = normalizePath(calls[c].a, <<"/">>)
            /\ calls[c].op = "readdir" => res[c][1].val = {N_f}

\* the part the code keeps: as long as no call before was given a base
C36_NoBaseNoTrace ==
    \A c \in 1..Len(calls) :
        (NoBase(c) /\ Returned(c) /\ \A b \in 1..(c - 1) : NoBase(b)) =>
            /\ calls[c].op = "normalizePath" => res[c][1].val = normalizePath(calls[c].a, <<"/">>)
            /\ calls[c].op = "readdir" => res[c][1].val = {N_f}

\* ------------------------------------- readlink calls back (C37)
MaxLiveCalls == 2

\* /f is a regular file, /l a link to it, /d a directory; /e is missing
LiveInit ==
    /\ tree = (<<N_f>> :> FileNode(Text_x, 0)) @@ (<<N_d>> :> DirNode)
                 @@ (<<N_l>> :> FileNode(SymlinkText(P_f, FileStr), 0))
    /\ store = [state |-> "json", map |-> DefaultMap(tree)]
    /\ perms = DefaultMap(tree)
    /\ currPath = <<"/">>
    /\ cwd = <<"/">>
    /\ tasks = <<>>
    /\ frames = <<>>
    /\ nid = 1
    /\ now = 1
    /\ calls = <<>>
    /\ res = <<>>
    /\ WatchIdle
    /\ NormIdle

\* readlink of the file, the link, the directory, the missing /e, or below the
\* file, whether or not the call before is over
LiveReadlink ==
    /\ Len(calls) < MaxLiveCalls
    /\ \E p \in {P_f, P_l, P_d, P_e, <<"/", "f", "/", "g">>} :
          /\ Record("readlink", p, <<>>, 0)
          /\ Apply(CallReadlink(Begin, p, Here))
    /\ UNCHANGED normVars

LiveNext == LiveReadlink \/ CompleteReadlink

\* the backend answers every call made to it
SpecLive == LiveInit /\ [][LiveNext]_vars /\ WF_vars(CompleteReadlink)

\* call c has been made
Made(c) == Len(calls) >= c

\* the callback of call c has been invoked, once
CalledBackOnce(c) == Len(res) >= c /\ Len(res[c]) = 1

\* C37: readlink(p) eventually invokes its callback exactly once for every
\* path p, including when p is an existing regular file whose content is not a
\* symlink marker.
C37_ReadlinkCallsBack ==
    /\ [](\A c \in 1..Len(res) : Len(res[c]) <= 1)
    /\ \A c \in 1..MaxLiveCalls : Made(c) ~> CalledBackOnce(c)

\* the part the code keeps: every path but a regular file without a marker
C37_ReadlinkCallsBackUnlessPlainFile ==
    /\ [](\A c \in 1..Len(res) : Len(res[c]) <= 1)
    /\ \A c \in 1..MaxLiveCalls : (Made(c) /\ calls[c].a # P_f) ~> CalledBackOnce(c)

\* ------------------------------------- links that lead back (C38)
MaxCycleCalls == 2
\* the backend lookups the two calls may make together. The tree below has
\* four links and is never changed, so a call that follows more than four
\* has followed one of them twice, and follows it again for ever: two calls
\* that end make ten lookups at most
MaxFollow == 10

\* /f is a regular file and /t a link to it; /l points to itself, /m and /s
\* point at each other
CycleInit ==
    /\ tree = (<<N_f>> :> FileNode(Text_x, 0))
                 @@ (<<N_t>> :> FileNode(SymlinkText(P_f, FileStr), 0))
                 @@ (<<N_l>> :> FileNode(SymlinkText(P_l, FileStr), 0))
                 @@ (<<N_m>> :> FileNode(SymlinkText(P_s, FileStr), 0))
                 @@ (<<N_s>> :> FileNode(SymlinkText(P_m, FileStr), 0))
    /\ store = [state |-> "json", map |-> DefaultMap(tree)]
    /\ perms = DefaultMap(tree)
    /\ currPath = <<"/">>
    /\ cwd = <<"/">>
    /\ tasks = <<>>
    /\ frames = <<>>
    /\ nid = 1
    /\ now = 1
    /\ calls = <<>>
    /\ res = <<>>
    /\ WatchIdle
    /\ NormIdle

CyclePaths == {P_f, P_t, P_e, P_l, P_m}

CycleStat ==
    /\ ClientReady(MaxCycleCalls)
    /\ \E p \in CyclePaths :
          /\ Record("stat", p, <<>>, 0)
          /\ Apply(CallStat(Begin, p, Here))
    /\ UNCHANGED normVars

CycleReadFile ==
    /\ ClientReady(MaxCycleCalls)
    /\ \E p \in CyclePaths :
          /\ Record("readFile", p, <<>>, 0)
          /\ Apply(CallReadFile(Begin, p, Here))
    /\ UNCHANGED normVars

CycleCompleteStat == nid <= MaxFollow /\ CompleteStat
CycleCompleteReadFile == nid <= MaxFollow /\ CompleteReadFile

CycleNext ==
    \/ CycleStat
    \/ CycleReadFile
    \/ CycleCompleteStat
    \/ CycleCompleteReadFile

\* the backend answers every lookup: weak fairness of the two completions,
\* WF_vars(CycleCompleteStat) and WF_vars(CycleCompleteReadFile), with the
\* condition under which each is enabled written out (a completion always
\* changes tasks)
CycleStatFair ==
    \/ []<>~(Pending("stat") # {} /\ nid <= MaxFollow)
    \/ []<><<CycleCompleteStat>>_vars
CycleReadFileFair ==
    \/ []<>~(Pending("readFile") # {} /\ nid <= MaxFollow)
    \/ []<><<CycleCompleteReadFile>>_vars

SpecCycle ==
    /\ CycleInit
    /\ [][CycleNext]_vars
    /\ CycleStatFair
    /\ CycleReadFileFair

\* the callback of call c has been invoked
CalledBack(c) == Len(res) >= c /\ res[c] # <<>>

\* the path of call c starts a chain of links that leads back to a link of it
OnCycle(c) == calls[c].a \in {P_l, P_m}

\* the lookups the backend has been asked for: every task of this client is one
Lookups == nid - 1

\* the links of the tree t
Links(t) == {np \in DOMAIN t : IsFileAt(t, np) /\ ExecSymlink(t[np].data).ok}

\* C38: stat(p) and readFile(p) eventually invoke their callback for every
\* path p, including when the symlink chain starting at p contains a cycle (a
\* link that points to itself, or two links that point at each other): each
\* call ends after at most one lookup per link of the tree and one more. A call
\* that asks for more has followed a link twice and, the tree being the same,
\* follows it again for ever and never invokes its callback.
C38_FollowEnds ==
    Lookups <= Len(calls) * (Cardinality(Links(tree)) + 1)

\* the part the code keeps: calls on chains that end stay within the lookups,
\* and have all called back once nothing is pending
C38_FollowEndsOffCycle ==
    (\A c \in 1..Len(calls) : ~OnCycle(c)) =>
        /\ Lookups <= Len(calls) * (Cardinality(Links(tree)) + 1)
        /\ DOMAIN tasks = {} => \A c \in 1..Len(calls) : CalledBack(c)

\* the same as temporal properties: under SpecCycle every call calls back
C38_FollowCallsBack ==
    \A c \in 1..MaxCycleCalls : Made(c) ~> CalledBack(c)

\* which holds of the calls on chains that end
C38_FollowCallsBackOffCycle ==
    \A c \in 1..MaxCycleCalls : (Made(c) /\ ~OnCycle(c)) ~> CalledBack(c)

\* a call that follows a chain that ends never comes near the limit of lookups
C38_LimitOnlyOnCycle ==
    nid > MaxFollow => \E c \in 1..Len(calls) : OnCycle(c) /\ ~CalledBack(c)

\* ------------------------------------- a copy into the copied directory (C39)
MaxNestCalls == 1
\* the depth at which the backend creates no more directories. A copy of the
\* empty /s that ends creates the destination and at most a copy of it in it:
\* for the destination /s/g nothing below depth 3
MaxNestDepth == 4

\* /s is a directory, empty or with the empty directory /s/d
NestInit ==
    /\ tree \in {(<<N_s>> :> DirNode),
                 (<<N_s>> :> DirNode) @@ (<<N_s, N_d>> :> DirNode)}
    /\ store = [state |-> "json", map |-> DefaultMap(tree)]
    /\ perms = DefaultMap(tree)
    /\ currPath = <<"/">>
    /\ cwd = <<"/">>
    /\ tasks = <<>>
    /\ frames = <<>>
    /\ nid = 1
    /\ now = 1
    /\ calls = <<>>
    /\ res = <<>>
    /\ WatchIdle
    /\ NormIdle

\* cp of /s to /t, outside it, and of the empty /s to /s/g, inside it
NestDestinations == IF <<N_s, N_d>> \in DOMAIN tree THEN {P_t} ELSE {P_sg, P_t}

NestCp ==
    /\ Len(calls) < MaxNestCalls
    /\ \E dst \in NestDestinations :
          /\ Record("cp", P_s, dst, 0)
          /\ Apply(CallCp(Begin, P_s, dst, Here))
    /\ UNCHANGED normVars

\* the depth of the deepest entry of the backend
NestDepth == IF DOMAIN tree = {} THEN 0
             ELSE CHOOSE d \in 1..(MaxNestDepth + 1) :
                      /\ \E np \in DOMAIN tree : Len(np) = d
                      /\ \A np \in DOMAIN tree : Len(np) <= d

NestCompleteMkdir == NestDepth < MaxNestDepth /\ CompleteMkdir

NestBackend ==
    \/ CompleteStat
    \/ NestCompleteMkdir
    \/ CompleteReaddir
    \/ CompleteUpdRead
    \/ CompleteUpdWrite

NestNext == NestCp \/ NestBackend

\* the backend can answer a pending call
NestAnswerable ==
    \E id \in DOMAIN tasks : tasks[id].op # "mkdir" \/ NestDepth < MaxNestDepth

\* the backend does not stop while it can answer a call: WF_vars(NestBackend)
\* with the condition under which it is enabled written out (an answer always
\* changes tasks)
NestFair == []<>~NestAnswerable \/ []<><<NestBackend>>_vars

SpecNest == NestInit /\ [][NestNext]_vars /\ NestFair

\* call c copies into the directory it copies
IntoItself(c) == calls[c].b = P_sg

\* C39: cp(src, dst) eventually invokes its callback and creates only finitely
\* many backend entries also when dst lies inside the directory src (for
\* example cp("/a", "/a/b")): the callback is invoked, and the copy has stopped
\* creating directories before the depth at which the backend refuses them.
C39_NestedCpEnds ==
    /\ [](NestDepth < MaxNestDepth)
    /\ \A c \in 1..MaxNestCalls : Made(c) ~> CalledBack(c)

\* the part the code keeps: a destination outside the copied directory
C39_CpOutsideEnds ==
    /\ [](\A c \in 1..Len(calls) : ~IntoItself(c) => NestDepth <= 2)
    /\ \A c \in 1..MaxNestCalls : (Made(c) /\ ~IntoItself(c)) ~> CalledBack(c)

\* ------------------------------------- rename and the shell's cwd (C40)
MaxCwdCalls == 2

\* /s is a directory, empty or with the empty directory /s/h; /d is a
\* directory, empty or with the empty directory /d/s
CwdTrees ==
    { (<<N_d>> :> DirNode) @@ src @@ sub :
        src \in {(<<N_s>> :> DirNode),
                 (<<N_s>> :> DirNode) @@ (<<N_s, N_h>> :> DirNode)},
        sub \in {<<>>, (<<N_d, N_s>> :> DirNode)} }

CwdInit ==
    /\ tree \in CwdTrees
    /\ store = [state |-> "json", map |-> DefaultMap(tree)]
    /\ perms = DefaultMap(tree)
    /\ currPath = <<"/">>
    /\ cwd = <<"/">>
    /\ tasks = <<>>
    /\ frames = <<>>
    /\ nid = 1
    /\ now = 1
    /\ calls = <<>>
    /\ res = <<>>
    /\ WatchIdle
    /\ NormIdle

\* shell.promises.cd("d"), as the first call
CwdCd ==
    /\ calls = <<>>
    /\ Record("promises.cd", <<"d">>, <<>>, cwd)
    /\ Apply(CallPromisesCd(Begin, <<"d">>, Here))
    /\ UNCHANGED normVars

\* fs.rename("/s", "/t") with nothing pending, recorded with the working
\* directory of the shell
CwdRename ==
    /\ Len(calls) < MaxCwdCalls
    /\ \A c \in 1..Len(calls) : calls[c].op # "rename"
    /\ DOMAIN tasks = {}
    /\ Record("rename", P_s, P_t, cwd)
    /\ Apply(CallRename(Begin, P_s, P_t, Here))
    /\ UNCHANGED normVars

CwdNext ==
    \/ CwdCd
    \/ CwdRename
    \/ CompleteStat
    \/ CompleteMkdir
    \/ CompleteReaddir
    \/ CompleteRmdir
    \/ CompleteUpdRead
    \/ CompleteUpdWrite

SpecCwd == CwdInit /\ [][CwdNext]_vars

\* the tree t with everything at and below /s moved to /t
MovedTree(t) ==
    [np \in {q \in DOMAIN t : Head(q) # N_s}
              \cup {<<N_t>> \o Tail(q) : q \in {p \in DOMAIN t : Head(p) = N_s}} |->
        IF Head(np) = N_t THEN t[<<N_s>> \o Tail(np)] ELSE t[np]]

\* call c is a rename that is over: it has reported and nothing is pending
RenameOver(c) ==
    /\ calls[c].op = "rename"
    /\ Returned(c)
    /\ DOMAIN tasks = {}

\* call c reported success and the backend holds the moved tree
RenameMoved(c) ==
    /\ Len(res[c]) = 1
    /\ res[c][1].err = NoErr
    /\ tree = MovedTree(calls[c].pre)

\* C40: the outcome of FS.rename on a directory does not depend on the working
\* directory of the shell attached to that FS: the run from any working
\* directory reports what the run from "/" reports, success, and ends in the
\* backend state that run ends in, the moved tree.
C40_RenameWhateverCwd ==
    \A c \in 1..Len(calls) : RenameOver(c) => RenameMoved(c)

\* the run the others are compared with: from the working directory "/" the
\* rename reports success and ends with the moved tree
C40_RenameFromRoot ==
    \A c \in 1..Len(calls) :
        (RenameOver(c) /\ calls[c].x = <<"/">>) => RenameMoved(c)

====
